---- MODULE Spec2Model ----
(***************************************************************************)
(* State-machine model of the detection-to-execution pipeline of the       *)
(* trading engine: the Auto-Pause manager (trading/auto_pause.py), the     *)
(* bundle detector (bundle_detector.py), the position manager              *)
(* (position_manager.py) and the trade executor with its snipers           *)
(* (executor.py, snipe_executor.py, kol_sniper.py, bundle_sniper.py).      *)
(*                                                                         *)
(* Each component has its own specification (SpecPause, SpecDetector,      *)
(* SpecClose, SpecExec) over the one set of variables; a specification     *)
(* leaves the variables of the other components unchanged.                 *)
(***************************************************************************)
EXTENDS Integers, Sequences, FiniteSets, TLC

VARIABLES
    now,              \* time(): wall clock in seconds
    pcfg_manual,      \* PauseConfig.require_manual_resume_on_critical
    pstate,           \* AutoPauseManager.state (PauseState)
    ap_last,          \* the latest record_success / record_failure call and its result, until another call or a clock advance
    critical_latched, \* history: check_balance paused for critical balance, no manual_resume since
    fail_run,         \* history: record_failure calls since the last record_success
    ticks,            \* history: how often the clock has advanced
    seen_sigs,        \* BundleDetector._seen_sigs
    seen_tokens,      \* BundleDetector._seen_tokens
    slot_activity,    \* BundleDetector._slot_activity, in insertion order
    current_slot,     \* BundleDetector._current_slot
    events_processed, \* BundleDetector.events_processed
    det_events,       \* the events handed to on_launch_detected, in order
    sig_adds,         \* history: how often _add_activity ran for each signature
    sig_recent,       \* history: the SigKeep signatures added to _seen_sigs last, the latest last
    sig_truncated,    \* history: the latest change of _seen_sigs was a truncation
    slot_hist,        \* history: the slots closed so far and the buys accumulated out of order
    pm_objs,          \* the Position objects created so far (a position is referred to by its index)
    pm_positions,     \* PositionManager.positions: position id -> Position object, 0 if absent
    pm_by_mint,       \* PositionManager.positions_by_mint: mint -> position id, <<>> if absent
    exits_executed,   \* PositionManager.exits_executed
    pm_file,          \* the content of the positions file
    pm_task,          \* the close_position call of each caller, while it awaits the sell
    pm_ret,           \* the latest return of a close_position call
    pm_sells,         \* history: the sells that returned a signature
    pm_on_exit,       \* history: the calls of the on_exit callback
    ex_cfg,           \* configuration of the run: the snipers' enabled flags, require_direct_dex
    ex_positions,     \* TradeExecutor._positions: token -> in_amount, 0 if absent
    trades_today,     \* TradeExecutor._trades_today
    safety_cache,     \* TokenSafetyChecker._cache: the mints with a cached (safe) result
    ex_calls,         \* history: calls of the entry paths so far
    ex_subs,          \* history: per token, the buy submissions that returned a signature
    ex_last,          \* history: the latest entry-path call and what it did
    ex_gates,         \* history: what the pre-trade and token-safety checks of that call met
    pause_flag,       \* the file pause.flag exists
    today,            \* the calendar day, as time.strftime("%Y-%m-%d") gives it
    day_started,      \* TradeExecutor._day_started
    max_daily_trades, \* TradeExecutor.max_daily_trades (AUTO_TRADE_MAX_DAILY_TRADES), 0 = unlimited
    mon_approved,     \* the monitor is between should_trade returning True and execute_buy
    day_subs,         \* history: the submissions that returned a signature on this calendar day
    flag_removed_by,  \* history: who removed pause.flag last, "None" while it was never removed
    mon,              \* PositionManager._check_all_positions: where the monitor's poll stands
    mon_last,         \* history: the latest evaluation of a position by the monitor
    ts_reached,       \* history: the positions whose pnl_pct was >= the trailing activation at a poll
    fee_cfg,          \* PriorityFeeTuner.config: min, base and max fee in microlamports
    fee_state,        \* PriorityFeeTuner.state (FeeState)
    fee_last,         \* history: the latest call of the tuner that returns a fee, and what it returned
    sz_in,            \* the arguments of the AMM and sizing functions: amounts, reserves, sizing limits
    sz_swap,          \* what calculate_swap_output returned for them, NoneVal before the call
    sz_impact,        \* what impact_for_amount returned for the two amounts, NoneVal before the call
    sz_opt,           \* what calculate_optimal_buy_size returned, NoneVal before the call
    pc_cache,         \* PoolCache._cache: the entries (key, expires_at, value, ttl) in insertion order
    pc_now,           \* time.time() * 1000 of the cache
    pc_last,          \* history: the latest call of PoolCache if a get or an invalidate; what a get returned and whether the entry had expired
    ig_pc,            \* the await the ingestor's start() task is pending on, or idle / returned
    ig_running,       \* BundleDetector._running
    ig_ws,            \* the connection BundleDetector._ws refers to: None, open or closed
    ig_url,           \* whether a Geyser URL is configured
    ig_stopped,       \* history: stop() was called after start()
    ig_attempts,      \* history: connection attempts begun
    ig_msgs,          \* history: frames handled
    safety_last       \* history: the latest check_token call made on its own: the mint, the account data it read and its answer

apVars == <<now, pcfg_manual, pstate, ap_last, critical_latched, fail_run, ticks>>

detVars == <<seen_sigs, seen_tokens, slot_activity, current_slot, events_processed,
             det_events, sig_adds, sig_recent, sig_truncated, slot_hist>>

pmVars == <<pm_objs, pm_positions, pm_by_mint, exits_executed, pm_file, pm_task,
            pm_ret, pm_sells, pm_on_exit>>

exVars == <<ex_cfg, ex_positions, trades_today, safety_cache, ex_calls, ex_subs, ex_last,
            ex_gates>>

gateVars == <<pause_flag, today, day_started, max_daily_trades, mon_approved, day_subs,
              flag_removed_by>>

monVars == <<mon, mon_last, ts_reached>>

feeVars == <<fee_cfg, fee_state, fee_last>>

szVars == <<sz_in, sz_swap, sz_impact, sz_opt>>

pcVars == <<pc_cache, pc_now, pc_last>>

igVars == <<ig_pc, ig_running, ig_ws, ig_url, ig_stopped, ig_attempts, ig_msgs>>

safVars == <<safety_last>>

auxVars == <<szVars, pcVars, igVars, safVars>>

vars == <<apVars, detVars, pmVars, exVars, gateVars, monVars, feeVars, auxVars>>

\* what the actions of one component leave unchanged
notApVars == <<detVars, feeVars, auxVars, pmVars, exVars, gateVars, monVars>>
notDetVars == <<apVars, feeVars, auxVars, pmVars, exVars, gateVars, monVars>>
notPmVars == <<apVars, detVars, feeVars, auxVars, exVars, gateVars, monVars>>

(***************************************************************************)
(* Bounds of the model                                                     *)
(***************************************************************************)
StartTime == 3600      \* time() when the manager is constructed
MaxTicks == 2          \* the clock advances at most this many times
MaxFailRun == 4        \* record_failure is not called beyond this many failures in a row
MaxHourFails == 11     \* nor beyond this many failures in the hourly window

\* the amounts by which the clock advances between two calls: the length of
\* one failure pause, and more than the hourly window
TickSteps == {300, 3900}

NoneVal == -1          \* Python None in an integer-valued field
RaiseVal == -2         \* the call raised an exception instead of answering

(***************************************************************************)
(* PauseConfig defaults (trading/auto_pause.py)                            *)
(***************************************************************************)
max_consecutive_failures == 3
max_failures_per_hour == 10
min_sol_balance_lamports == 50000000
critical_sol_balance_lamports == 10000000
failure_pause_duration_sec == 300
balance_check_interval_sec == 60
auto_resume_after_sec == 1800
manual_pause_duration_sec == 3600
HourSec == 3600

\* what rpc.get_balance can answer: a lamport value, a response without a
\* value (NoneVal), or an exception (RaiseVal)
BalanceValues == {5000000, 30000000, 100000000}

PauseStateInit ==
    [is_paused |-> FALSE, pause_reason |-> "None", pause_start |-> NoneVal,
     resume_at |-> NoneVal, requires_manual_resume |-> FALSE,
     consecutive_failures |-> 0, failures_this_hour |-> 0,
     hour_start |-> StartTime, last_balance_check |-> 0,
     last_known_balance |-> 0]

\* Python truthiness of an Optional[number]
Truthy(x) == x # NoneVal /\ x # 0

\* AutoPauseManager._pause
Pause(s, reason, duration_sec, require_manual, t, cfg_manual) ==
    [s EXCEPT !.is_paused = TRUE,
              !.pause_reason = reason,
              !.pause_start = t,
              !.resume_at = IF Truthy(duration_sec) THEN t + duration_sec ELSE NoneVal,
              !.requires_manual_resume = (require_manual \/ cfg_manual)]

\* AutoPauseManager._resume
Resume(s) ==
    [s EXCEPT !.is_paused = FALSE,
              !.pause_reason = "None",
              !.pause_start = NoneVal,
              !.resume_at = NoneVal,
              !.requires_manual_resume = FALSE,
              !.consecutive_failures = 0]

\* the auto-resume condition of is_trading_allowed
AutoResumeDue(s, t) ==
    /\ Truthy(s.resume_at)
    /\ t >= s.resume_at
    /\ ~s.requires_manual_resume

\* AutoPauseManager.is_trading_allowed: the state it leaves and what it returns
IsTradingAllowedRes(s, t) ==
    IF ~s.is_paused THEN [state |-> s, allowed |-> TRUE, reason |-> "None"]
    ELSE IF AutoResumeDue(s, t)
         THEN [state |-> Resume(s), allowed |-> TRUE, reason |-> "None"]
         ELSE [state |-> s, allowed |-> FALSE, reason |-> s.pause_reason]

\* AutoPauseManager.record_success
RecordSuccessRes(s) == [s EXCEPT !.consecutive_failures = 0]

\* the hourly window reset at the head of record_failure
HourRollover(s, t) ==
    IF t - s.hour_start > HourSec
    THEN [s EXCEPT !.failures_this_hour = 0, !.hour_start = t]
    ELSE s

ConsecutiveTripped_off(s) == s.consecutive_failures > max_consecutive_failures

\* record_failure: the consecutive-failure rule
ConsecutiveTripped(s) == s.consecutive_failures >= max_consecutive_failures

\* record_failure: the hourly rule
HourlyTripped(s) == s.failures_this_hour >= max_failures_per_hour

\* AutoPauseManager.record_failure: the state it leaves and what it returns
RecordFailureRes(s, t, cfg_manual) ==
    LET s1 == HourRollover(s, t)
        s2 == [s1 EXCEPT !.consecutive_failures = @ + 1,
                         !.failures_this_hour = @ + 1]
    IN  IF ConsecutiveTripped(s2)
        THEN [state |-> Pause(s2, "consecutive_failures", failure_pause_duration_sec,
                              FALSE, t, cfg_manual),
              ret |-> TRUE, rule |-> "consecutive_failures"]
        ELSE IF HourlyTripped(s2)
        THEN [state |-> Pause(s2, "hourly_failure_limit", failure_pause_duration_sec * 2,
                              FALSE, t, cfg_manual),
              ret |-> TRUE, rule |-> "hourly_failure_limit"]
        ELSE [state |-> s2, ret |-> FALSE, rule |-> "None"]

\* AutoPauseManager.check_balance; resp is what rpc.get_balance answers
CheckBalanceRes(s, t, resp, cfg_manual) ==
    IF t - s.last_balance_check < balance_check_interval_sec
    THEN [state |-> s, balance |-> s.last_known_balance, is_crit |-> FALSE, rule |-> "skipped"]
    ELSE IF resp = RaiseVal
    THEN [state |-> s, balance |-> s.last_known_balance, is_crit |-> FALSE, rule |-> "error"]
    ELSE LET s1 == [s EXCEPT !.last_known_balance = IF resp = NoneVal THEN 0 ELSE resp,
                             !.last_balance_check = t]
         IN  IF resp = NoneVal
             THEN [state |-> s1, balance |-> 0, is_crit |-> FALSE, rule |-> "no_value"]
             ELSE IF resp < critical_sol_balance_lamports
             THEN [state |-> Pause(s1, "critical_balance", NoneVal, TRUE, t, cfg_manual),
                   balance |-> resp, is_crit |-> TRUE, rule |-> "critical_balance"]
             ELSE IF resp < min_sol_balance_lamports
             THEN [state |-> Pause(s1, "low_balance", auto_resume_after_sec, FALSE, t, cfg_manual),
                   balance |-> resp, is_crit |-> FALSE, rule |-> "low_balance"]
             ELSE [state |-> s1, balance |-> resp, is_crit |-> FALSE, rule |-> "ok"]

\* is_trading_allowed would return not-allowed if it were called now
Blocked(s, t) == ~IsTradingAllowedRes(s, t).allowed

ApLastNone == [op |-> "other", ret |-> FALSE, rule |-> "None"]

(***************************************************************************)
(* Bundle detector (bundle_detector.py)                                    *)
(***************************************************************************)
MaxFrames == 6         \* frames delivered to _handle_message in one run
SigCap == 2            \* cap of _seen_sigs (20000 in the source), scaled down
TokCap == 2            \* cap of _seen_tokens (2000 in the source), scaled down

\* the truncations keep half of the cap: [-10000:] of 20000, [-1000:] of 2000
SigKeep == SigCap \div 2
TokKeep == TokCap \div 2

min_coordinated_buyers == 3
whale_threshold_sol == 10
slot_window == 2

\* The transactions of the stream.  A signature identifies one transaction,
\* so a frame that repeats a signature repeats its content.  parsed = FALSE
\* is a transaction for which _parse_tx returns None (no venue program, no
\* acquired token).
Sigs == {"s1", "s2", "s3", "s4", "s5", "s6", "s7", "s8", "s9"}

Tx(sig) ==
    CASE sig = "s1" -> [slot |-> 1, parsed |-> TRUE, token_mint |-> "T1", buyer |-> "w1",
                        amount_sol |-> 10, is_new_pool |-> FALSE, dex |-> "raydium"]
      [] sig = "s2" -> [slot |-> 1, parsed |-> TRUE, token_mint |-> "T2", buyer |-> "w2",
                        amount_sol |-> 1, is_new_pool |-> TRUE, dex |-> "pump_graduation"]
      [] sig = "s3" -> [slot |-> 1, parsed |-> TRUE, token_mint |-> "T3", buyer |-> "w1",
                        amount_sol |-> 1, is_new_pool |-> FALSE, dex |-> "raydium"]
      [] sig = "s4" -> [slot |-> 1, parsed |-> TRUE, token_mint |-> "T3", buyer |-> "w2",
                        amount_sol |-> 1, is_new_pool |-> FALSE, dex |-> "raydium"]
      [] sig = "s5" -> [slot |-> 1, parsed |-> TRUE, token_mint |-> "T3", buyer |-> "w3",
                        amount_sol |-> 1, is_new_pool |-> FALSE, dex |-> "raydium"]
      [] sig = "s6" -> [slot |-> 4, parsed |-> FALSE, token_mint |-> "", buyer |-> "",
                        amount_sol |-> 0, is_new_pool |-> FALSE, dex |-> ""]
      [] sig = "s7" -> [slot |-> 2, parsed |-> TRUE, token_mint |-> "T3", buyer |-> "w2",
                        amount_sol |-> 12, is_new_pool |-> FALSE, dex |-> "jupiter"]
      [] sig = "s8" -> [slot |-> 1, parsed |-> TRUE, token_mint |-> "T3", buyer |-> "w4",
                        amount_sol |-> 1, is_new_pool |-> FALSE, dex |-> "raydium"]
      [] sig = "s9" -> [slot |-> 1, parsed |-> TRUE, token_mint |-> "T3", buyer |-> "w5",
                        amount_sol |-> 1, is_new_pool |-> FALSE, dex |-> "raydium"]

Range(f) == {f[i] : i \in DOMAIN f}

RECURSIVE SumAmounts(_)
SumAmounts(buys) ==
    IF buys = <<>> THEN 0 ELSE Head(buys).amount_sol + SumAmounts(Tail(buys))

Truncate_off(s, cap, keep) ==
    IF Cardinality(s) > cap + 1
    THEN {k \in SUBSET s : Cardinality(k) = keep}
    ELSE {s}

\* set(list(s)[-keep:]) once len(s) > cap: a Python set has no insertion
\* order, so the entries that survive are any `keep` of them
Truncate(s, cap, keep) ==
    IF Cardinality(s) > cap
    THEN {k \in SUBSET s : Cardinality(k) = keep}
    ELSE {s}

\* BundleDetector._remember_token: the sets _seen_tokens can become
RememberToken(seen, token) == Truncate(seen \cup {token}, TokCap, TokKeep)

\* the parsed dict of a transaction, as stored in the slot accumulator
Parsed(sig) ==
    LET tx == Tx(sig)
    IN  [signature |-> sig, slot |-> tx.slot, dex |-> tx.dex, buyer |-> tx.buyer,
         token_mint |-> tx.token_mint, amount_sol |-> tx.amount_sol,
         is_new_pool |-> tx.is_new_pool]

\* index of token in an accumulator's token_buys, 0 if absent
TokenIndex(tb, token) ==
    IF \E i \in DOMAIN tb : tb[i].token = token
    THEN CHOOSE i \in DOMAIN tb : tb[i].token = token
    ELSE 0

SlotIndex(acts, slot) ==
    IF \E i \in DOMAIN acts : acts[i].slot = slot
    THEN CHOOSE i \in DOMAIN acts : acts[i].slot = slot
    ELSE 0

\* act.token_buys[token].append(parsed)
AppendBuy(tb, parsed) ==
    LET i == TokenIndex(tb, parsed.token_mint)
    IN  IF i = 0
        THEN Append(tb, [token |-> parsed.token_mint, buys |-> <<parsed>>])
        ELSE [tb EXCEPT ![i].buys = Append(@, parsed)]

\* BundleDetector._add_activity
AddActivity(acts, slot, parsed) ==
    LET i == SlotIndex(acts, slot)
    IN  IF i = 0
        THEN Append(acts, [slot |-> slot, token_buys |-> AppendBuy(<<>>, parsed)])
        ELSE [acts EXCEPT ![i].token_buys = AppendBuy(@, parsed)]

\* the event of _immediate_triggers; confidence in hundredths
ImmediateEvent(parsed, type) ==
    [token_mint |-> parsed.token_mint, event_type |-> type, slot |-> parsed.slot,
     first_signature |-> parsed.signature, signatures |-> <<parsed.signature>>,
     num_buyers |-> 1, total_sol_volume |-> parsed.amount_sol,
     confidence |-> IF type = "whale_entry" THEN 70 ELSE 90]

\* BundleDetector._immediate_triggers: "none", or the type of the event
ImmediateTrigger(parsed, seen) ==
    IF parsed.token_mint \in seen THEN "none"
    ELSE IF parsed.is_new_pool
         THEN (IF parsed.dex = "pump_graduation" THEN "pump_graduation" ELSE "new_pool")
    ELSE IF parsed.amount_sol >= whale_threshold_sol THEN "whale_entry"
    ELSE "none"

Buyers(buys) == {buys[i].buyer : i \in DOMAIN buys} \ {""}

EnoughBuyers_off(buys) == Cardinality(Buyers(buys)) > min_coordinated_buyers

\* the coordinated-buy test of _process_completed_slots
EnoughBuyers(buys) == Cardinality(Buyers(buys)) >= min_coordinated_buyers

\* min(0.5 + (len(unique_buyers) * 0.1), 0.95), in hundredths
CoordinatedConfidence(n) == IF 50 + (n * 10) < 95 THEN 50 + (n * 10) ELSE 95

CoordinatedEvent(slot, tbe) ==
    [token_mint |-> tbe.token, event_type |-> "coordinated_buy", slot |-> slot,
     first_signature |-> tbe.buys[1].signature,
     signatures |-> [i \in DOMAIN tbe.buys |-> tbe.buys[i].signature],
     num_buyers |-> Cardinality(Buyers(tbe.buys)),
     total_sol_volume |-> SumAmounts(tbe.buys),
     confidence |-> CoordinatedConfidence(Cardinality(Buyers(tbe.buys)))]

\* the loop over act.token_buys.items() for one closed slot; st is
\* [seen, ev]; the result is the set of states the loop can end in
RECURSIVE ProcessTokens(_, _, _)
ProcessTokens(slot, tb, st) ==
    IF tb = <<>> THEN {st}
    ELSE LET tbe == Head(tb)
         IN  IF tbe.token \in st.seen \/ ~EnoughBuyers(tbe.buys)
             THEN ProcessTokens(slot, Tail(tb), st)
             ELSE UNION { ProcessTokens(slot, Tail(tb),
                                        [seen |-> sn, ev |-> Append(st.ev, CoordinatedEvent(slot, tbe))])
                          : sn \in RememberToken(st.seen, tbe.token) }

\* the loop over done_slots
RECURSIVE ProcessSlots(_, _)
ProcessSlots(done, st) ==
    IF done = <<>> THEN {st}
    ELSE UNION { ProcessSlots(Tail(done), s2)
                 : s2 \in ProcessTokens(Head(done).slot, Head(done).token_buys, st) }

IsDone_off(act, cur) == act.slot < cur

\* the test of done_slots: the slot is more than slot_window behind
IsDone(act, cur) == act.slot < cur - slot_window

\* BundleDetector._process_completed_slots(current_slot): the accumulators
\* that stay, and the possible [seen, ev] it ends in
DoneSlots(acts, cur) == SelectSeq(acts, LAMBDA a : IsDone(a, cur))
OpenSlots(acts, cur) == SelectSeq(acts, LAMBDA a : ~IsDone(a, cur))

\* the signatures of an accumulator's buys
SigsOf(act) ==
    UNION { {act.token_buys[i].buys[j].signature : j \in DOMAIN act.token_buys[i].buys}
            : i \in DOMAIN act.token_buys }

\* no slot has been closed, no buy was accumulated out of order
SlotHistNone == [closed |-> {}, ooo |-> {}, late |-> {}]

\* the history after a frame of slot `slot` with signature sig, handled when
\* _current_slot was cur: `closed` gets each slot popped by
\* _process_completed_slots for the first time, with the signatures its
\* accumulator held; `ooo` gets a buy accumulated behind the current slot;
\* `late` gets a buy accumulated into a slot that was closed before, with
\* the number of slots the frame was behind.
SlotHistAfter(h, acts, cur, slot, sig, accumulated) ==
    LET done == IF slot > cur THEN DoneSlots(acts, slot) ELSE <<>>
        was == {c.slot : c \in h.closed}
        closed2 == h.closed \cup {[slot |-> done[i].slot, sigs |-> SigsOf(done[i])]
                                  : i \in {k \in DOMAIN done : done[k].slot \notin was}}
        lag == IF slot > cur THEN 0 ELSE cur - slot
    IN  [closed |-> closed2,
         ooo |-> IF accumulated /\ lag > 0 THEN h.ooo \cup {sig} ELSE h.ooo,
         late |-> IF accumulated /\ slot \in {c.slot : c \in closed2}
                  THEN h.late \cup {[sig |-> sig, lag |-> lag]}
                  ELSE h.late]

\* the signatures added last, after sig was added: at most SigKeep of them
RecentAfter(recent, sig) ==
    LET r == Append(SelectSeq(recent, LAMBDA x : x # sig), sig)
    IN  IF Len(r) > SigKeep THEN SubSeq(r, Len(r) - SigKeep + 1, Len(r)) ELSE r

DetInit ==
    /\ seen_sigs = {}
    /\ seen_tokens = {}
    /\ slot_activity = <<>>
    /\ current_slot = 0
    /\ events_processed = 0
    /\ det_events = <<>>
    /\ sig_adds = [s \in Sigs |-> 0]
    /\ sig_recent = <<>>
    /\ sig_truncated = FALSE
    /\ slot_hist = SlotHistNone

\* _handle_message on a frame that is not JSON or has no transaction in it
DetHandleUnknownFrame ==
    /\ events_processed < MaxFrames
    /\ events_processed' = events_processed + 1
    /\ UNCHANGED <<seen_sigs, seen_tokens, slot_activity, current_slot, det_events, sig_adds>>
    /\ UNCHANGED <<sig_recent, sig_truncated, slot_hist>>
    /\ UNCHANGED notDetVars

\* _handle_message on a frame whose signature is in _seen_sigs
DetHandleRepeat ==
    /\ events_processed < MaxFrames
    /\ \E sig \in Sigs : sig \in seen_sigs
    /\ events_processed' = events_processed + 1
    /\ UNCHANGED <<seen_sigs, seen_tokens, slot_activity, current_slot, det_events, sig_adds>>
    /\ UNCHANGED <<sig_recent, sig_truncated, slot_hist>>
    /\ UNCHANGED notDetVars

\* _handle_message on a frame whose signature is not in _seen_sigs
DetHandleMessage ==
    /\ events_processed < MaxFrames
    /\ \E sig \in Sigs \ seen_sigs :
       \E sigs2 \in Truncate(seen_sigs \cup {sig}, SigCap, SigKeep) :
         LET tx == Tx(sig)
             advance == tx.slot > current_slot
             st0 == [seen |-> seen_tokens, ev |-> det_events]
             acts1 == IF advance THEN OpenSlots(slot_activity, tx.slot) ELSE slot_activity
             parsed == Parsed(sig)
         IN  /\ events_processed' = events_processed + 1
             /\ seen_sigs' = sigs2
             /\ sig_recent' = RecentAfter(sig_recent, sig)
             /\ sig_truncated' = (Cardinality(seen_sigs \cup {sig}) > SigCap)
             /\ slot_hist' = SlotHistAfter(slot_hist, slot_activity, current_slot, tx.slot,
                                           sig, tx.parsed)
             /\ current_slot' = IF advance THEN tx.slot ELSE current_slot
             /\ \E st1 \in (IF advance
                            THEN ProcessSlots(DoneSlots(slot_activity, tx.slot), st0)
                            ELSE {st0}) :
                  IF ~tx.parsed
                  THEN /\ slot_activity' = acts1
                       /\ seen_tokens' = st1.seen
                       /\ det_events' = st1.ev
                       /\ UNCHANGED sig_adds
                  ELSE LET trig == ImmediateTrigger(parsed, st1.seen)
                       IN  /\ slot_activity' = AddActivity(acts1, tx.slot, parsed)
                           /\ sig_adds' = [sig_adds EXCEPT ![sig] = @ + 1]
                           /\ IF trig = "none"
                              THEN /\ seen_tokens' = st1.seen
                                   /\ det_events' = st1.ev
                              ELSE /\ seen_tokens' \in RememberToken(st1.seen, parsed.token_mint)
                                   /\ det_events' = Append(st1.ev, ImmediateEvent(parsed, trig))
    /\ UNCHANGED notDetVars


(***************************************************************************)
(* Position manager (position_manager.py)                                  *)
(***************************************************************************)
MaxAdds == 2           \* add_position calls in one run

\* Mints, by their first 8 characters and the rest
PmMints == {"AAAAAAAA1", "AAAAAAAA2", "BBBBBBBB1"}

\* token_mint[:8]
Prefix8(mint) == IF mint \in {"AAAAAAAA1", "AAAAAAAA2"} THEN "AAAAAAAA" ELSE "BBBBBBBB"

\* f"{token_mint[:8]}-{entry_slot}"
PositionId(mint, entry_slot) == <<Prefix8(mint), entry_slot>>

\* the executor and the snipers pass entry_slot = 0
PositionIds == {PositionId(m, 0) : m \in PmMints}

NoId == <<>>

\* the callers of close_position: the monitor loop and flatten_positions,
\* both coroutines of the executor's event loop
Closers == {"monitor", "flatten"}

\* two of the reasons _check_exit_conditions returns; close_position treats
\* every reason alike
AutoReasons == {"stop_loss", "time_exit"}

\* the price at which the positions of the model are entered.  Prices are
\* whole numbers of a price unit; the price levels of the model are multiples
\* of a hundredth of the entry price, so that percentages of it are whole.
EntryPrice == 1000

\* Position(...) as add_position builds it, at time t
NewPosition(id, mint, entry_signature, entry_price_usd, t) ==
    [id |-> id, token_mint |-> mint, entry_signature |-> entry_signature,
     entry_time |-> t, entry_price_usd |-> entry_price_usd,
     current_price_usd |-> entry_price_usd, highest_price_usd |-> entry_price_usd,
     lowest_price_usd |-> entry_price_usd, unrealized_pnl_pct |-> 0,
     trailing_stop_active |-> FALSE, trailing_stop_price |-> 0,
     exit_signature |-> NoneVal, exit_time |-> NoneVal, exit_price_usd |-> NoneVal,
     exit_reason |-> "None"]

\* Position.is_open
IsOpen(pos) == pos.exit_time = NoneVal

\* _save_positions: the positions map by value, and the stats
SaveFile(positions, objs, exits) ==
    [positions |-> [id \in {i \in PositionIds : positions[i] # 0} |-> objs[positions[id]]],
     exits_executed |-> exits]

\* the monitor is between two polls
MonIdle == [pc |-> "idle", snapshot |-> <<>>, i |-> 0, polls |-> 0]

\* the monitor has not evaluated a position yet
MonLastNone ==
    [obj |-> 0, was_open |-> TRUE, price |-> NoneVal, pnl_pct |-> 0, hold_min |-> 0,
     stop_price |-> 0, active |-> FALSE, reason |-> "None"]

TaskIdle == [pc |-> "idle", obj |-> 0, reason |-> "None", price |-> NoneVal]

\* no close_position call has returned yet
NoReturn == [by |-> "None", obj |-> 0, ret |-> NoneVal]

PmInit ==
    /\ pm_objs = <<>>
    /\ pm_positions = [id \in PositionIds |-> 0]
    /\ pm_by_mint = [m \in PmMints |-> NoId]
    /\ exits_executed = 0
    /\ pm_file = SaveFile([id \in PositionIds |-> 0], <<>>, 0)
    /\ pm_task = [c \in Closers |-> TaskIdle]
    /\ pm_ret = NoReturn
    /\ pm_sells = <<>>
    /\ pm_on_exit = <<>>
    /\ mon = MonIdle
    /\ mon_last = MonLastNone
    /\ ts_reached = {}

\* PositionManager.add_position, with entry_slot = 0, at time t: the objects,
\* the maps and the file after the call
AddPositionRes(objs, positions, by_mint, exits, m, entry_signature, t) ==
    LET id == PositionId(m, 0)
        o == Len(objs) + 1
        objs2 == Append(objs, NewPosition(id, m, entry_signature, EntryPrice, t))
        positions2 == [positions EXCEPT ![id] = o]
    IN  [objs |-> objs2,
         positions |-> positions2,
         by_mint |-> [by_mint EXCEPT ![m] = id],
         file |-> SaveFile(positions2, objs2, exits)]

\* add_position(token_mint = m, entry_slot = 0, ...) at the current time
PmAddPositionOf(m) ==
    /\ LET r == AddPositionRes(pm_objs, pm_positions, pm_by_mint, exits_executed, m,
                               Len(pm_objs) + 1, now)
       IN  /\ pm_objs' = r.objs
           /\ pm_positions' = r.positions
           /\ pm_by_mint' = r.by_mint
           /\ pm_file' = r.file
    /\ UNCHANGED <<exits_executed, pm_task, pm_ret, pm_sells, pm_on_exit>>
    /\ UNCHANGED notPmVars

PmAddPosition ==
    /\ Len(pm_objs) < MaxAdds
    /\ \E m \in PmMints : PmAddPositionOf(m)

\* the reasons a caller passes: the monitor an automatic one, flatten MANUAL
ReasonsOf(c) == IF c = "monitor" THEN AutoReasons ELSE {"manual"}

\* the test at the head of close_position: the position exists and is open
StillOpen(o) == IsOpen(pm_objs[o])

\* close_position(id, r, price) called by c, up to
\* `await self._execute_sell(position)`: pm_task and pm_ret after it.  It
\* returns None for an unknown or closed position, otherwise the sell is in
\* flight.
CloseBeginRes(c, id, r, price) ==
    LET o == pm_positions[id]
    IN  IF o # 0 /\ StillOpen(o)
        THEN [task |-> [pm_task EXCEPT ![c] = [pc |-> "selling", obj |-> o, reason |-> r,
                                               price |-> price]],
              ret |-> pm_ret]
        ELSE [task |-> pm_task, ret |-> [by |-> c, obj |-> o, ret |-> NoneVal]]

\* a close_position call for a position of the map: by the monitor with a
\* reason of its own, by flatten_positions with MANUAL and no price
PmCloseBeginBy(c) ==
    \E id \in PositionIds : \E r \in ReasonsOf(c) :
      /\ pm_task[c].pc = "idle"
      /\ pm_positions[id] # 0
      /\ LET b == CloseBeginRes(c, id, r, NoneVal)
         IN  /\ pm_task' = b.task
             /\ pm_ret' = b.ret
      /\ UNCHANGED <<pm_objs, pm_positions, pm_by_mint, exits_executed, pm_file, pm_sells, pm_on_exit>>
      /\ UNCHANGED notPmVars

PmCloseBegin == \E c \in Closers : PmCloseBeginBy(c)

\* what the two sell paths can return: no signature, or a new one
SellResults == {NoneVal, Len(pm_sells) + 1}

\* _execute_sell: the bundle path, and the RPC path when it gave nothing
ExecuteSell(jito, jupiter) == IF Truthy(jito) THEN jito ELSE jupiter

SellAccepted_off(sig) == TRUE

\* `if sig:` of close_position
SellAccepted(sig) == Truthy(sig)

\* close_position from the return of _execute_sell with no signature: both
\* sell paths failed
PmCloseSellFailed ==
    \E c \in Closers :
      /\ pm_task[c].pc = "selling"
      /\ \E jito, jupiter \in SellResults : ~SellAccepted(ExecuteSell(jito, jupiter))
      /\ pm_ret' = [by |-> c, obj |-> pm_task[c].obj, ret |-> NoneVal]
      /\ pm_task' = [pm_task EXCEPT ![c] = TaskIdle]
      /\ UNCHANGED <<pm_objs, pm_positions, pm_by_mint, exits_executed, pm_file, pm_sells, pm_on_exit>>
      /\ UNCHANGED notPmVars

\* close_position from the return of _execute_sell with a signature to its end
PmCloseSellDone ==
    \E c \in Closers, jito, jupiter \in SellResults :
      /\ pm_task[c].pc = "selling"
      /\ LET o == pm_task[c].obj
             r == pm_task[c].reason
             sig == ExecuteSell(jito, jupiter)
         IN  /\ SellAccepted(sig)
             /\ pm_sells' = Append(pm_sells, [obj |-> o, sig |-> sig])
             /\ pm_objs' = [pm_objs EXCEPT ![o].exit_signature = sig,
                                           ![o].exit_time = now,
                                           ![o].exit_price_usd =
                                               IF Truthy(pm_task[c].price)
                                               THEN pm_task[c].price
                                               ELSE pm_objs[o].current_price_usd,
                                           ![o].exit_reason = r]
             /\ exits_executed' = exits_executed + 1
             /\ pm_by_mint' = [pm_by_mint EXCEPT ![pm_objs[o].token_mint] = NoId]
             /\ pm_file' = SaveFile(pm_positions, pm_objs', exits_executed')
             /\ pm_on_exit' = Append(pm_on_exit, [obj |-> o, reason |-> r])
             /\ pm_ret' = [by |-> c, obj |-> o, ret |-> sig]
             /\ pm_task' = [pm_task EXCEPT ![c] = TaskIdle]
      /\ UNCHANGED pm_positions
      /\ UNCHANGED notPmVars

(***************************************************************************)
(* The monitor of the position manager: price updates and exit conditions  *)
(* (position_manager.py)                                                   *)
(***************************************************************************)
MaxPolls == 3          \* polls of the monitor loop in one run
MaxMonitored == 2      \* positions added beside the monitor loop
MaxHoldTicks == 1      \* the clock advances at most this many times beside the monitor

\* ExitConfig defaults, in percent and minutes
take_profit_pct == 75
stop_loss_pct == 15
trailing_stop_pct == 10
trailing_stop_activation_pct == 20
enable_trailing_stop == TRUE
max_hold_minutes == 60
enable_time_exit == TRUE
rug_drop_pct == 35
enable_rug_protection == TRUE

\* the clock advances by this many seconds beside the monitor: past the time exit
HoldStep == (max_hold_minutes + 5) * 60

\* the mints bought while the monitor runs: the executor buys a mint again
\* (another cluster, a DCA slice), always with entry_slot = 0
MonMints == {"BBBBBBBB1"}

\* the prices the price feed reports for a position entered at EntryPrice:
\* -35 %, -15 %, +10 %, +20 %, +35 %, +75 %
PriceLevels == {650, 850, 1100, 1200, 1350, 1750}

\* ((price_usd / entry_price_usd) - 1) * 100, exact on the price levels
PnlPct(price_usd, entry_price_usd) == (100 * (price_usd - entry_price_usd)) \div entry_price_usd

\* Position.update_price; _update_sol_price leaves a positive SOL price
UpdatePrice(pos, price_usd) ==
    [pos EXCEPT !.current_price_usd = price_usd,
                !.highest_price_usd = IF price_usd > @ THEN price_usd ELSE @,
                !.lowest_price_usd = IF price_usd < @ \/ @ = 0 THEN price_usd ELSE @,
                !.unrealized_pnl_pct = IF pos.entry_price_usd > 0
                                       THEN PnlPct(price_usd, pos.entry_price_usd)
                                       ELSE @]

\* Position.hold_duration_minutes at time t, in whole minutes
HoldMinutes(pos, t) ==
    LET end_time == IF pos.exit_time # NoneVal THEN pos.exit_time ELSE t
    IN  (end_time - pos.entry_time) \div 60

\* price * (1 - ts_pct / 100)
StopBelow(price_usd, ts_pct) == (price_usd * (100 - ts_pct)) \div 100

LossReason_off(pnl_pct) ==
    IF pnl_pct <= -stop_loss_pct THEN "stop_loss"
    ELSE IF enable_rug_protection /\ pnl_pct <= -rug_drop_pct THEN "rug_detected"
    ELSE "None"

\* the first two tests of _check_exit_conditions
LossReason(pnl_pct) ==
    IF enable_rug_protection /\ pnl_pct <= -rug_drop_pct THEN "rug_detected"
    ELSE IF pnl_pct <= -stop_loss_pct THEN "stop_loss"
    ELSE "None"

\* the test that arms the trailing stop
TrailingArms(pos) ==
    pos.unrealized_pnl_pct >= trailing_stop_activation_pct /\ ~pos.trailing_stop_active

TrailingUpdate_off(pos) ==
    LET armed == IF TrailingArms(pos)
                 THEN [pos EXCEPT !.trailing_stop_active = TRUE,
                                  !.trailing_stop_price =
                                      StopBelow(pos.current_price_usd, trailing_stop_pct)]
                 ELSE pos
    IN  IF armed.trailing_stop_active
        THEN [armed EXCEPT !.trailing_stop_price =
                               StopBelow(armed.current_price_usd, trailing_stop_pct)]
        ELSE armed

\* the trailing-stop block of _check_exit_conditions: the position after
\* arming and ratcheting
TrailingUpdate(pos) ==
    LET armed == IF TrailingArms(pos)
                 THEN [pos EXCEPT !.trailing_stop_active = TRUE,
                                  !.trailing_stop_price =
                                      StopBelow(pos.current_price_usd, trailing_stop_pct)]
                 ELSE pos
        new_stop == StopBelow(armed.highest_price_usd, trailing_stop_pct)
    IN  IF armed.trailing_stop_active /\ new_stop > armed.trailing_stop_price
        THEN [armed EXCEPT !.trailing_stop_price = new_stop]
        ELSE armed

\* PositionManager._check_exit_conditions at time t: the position it leaves
\* and the reason it returns (the positions carry no custom exits)
CheckExitConditions(pos, t) ==
    LET pnl_pct == pos.unrealized_pnl_pct
        trailed == IF enable_trailing_stop THEN TrailingUpdate(pos) ELSE pos
    IN  IF LossReason(pnl_pct) # "None" THEN [pos |-> pos, reason |-> LossReason(pnl_pct)]
        ELSE IF pnl_pct >= take_profit_pct THEN [pos |-> pos, reason |-> "take_profit"]
        ELSE IF /\ enable_trailing_stop
                /\ trailed.trailing_stop_active
                /\ trailed.current_price_usd <= trailed.trailing_stop_price
        THEN [pos |-> trailed, reason |-> "trailing_stop"]
        ELSE IF enable_time_exit /\ HoldMinutes(pos, t) >= max_hold_minutes
        THEN [pos |-> trailed, reason |-> "time_exit"]
        ELSE [pos |-> trailed, reason |-> "None"]

\* [p for p in self.positions.values() if p.is_open], from object o on: the
\* map keeps its keys in the order of their first insertion
RECURSIVE OpenPositions(_)
OpenPositions(o) ==
    IF o > Len(pm_objs) THEN <<>>
    ELSE LET id == pm_objs[o].id
             first == \A q \in 1 .. (o - 1) : pm_objs[q].id # id
         IN  (IF first /\ IsOpen(pm_objs[pm_positions[id]])
              THEN <<pm_positions[id]>> ELSE <<>>) \o OpenPositions(o + 1)

\* _check_all_positions up to the loop: the snapshot of the open positions
MonPollBegin ==
    /\ mon.pc = "idle"
    /\ pm_task["monitor"].pc = "idle"
    /\ mon.polls < MaxPolls
    /\ LET open_positions == OpenPositions(1)
       IN  mon' = IF open_positions = <<>>
                  THEN [mon EXCEPT !.polls = @ + 1]
                  ELSE [pc |-> "loop", snapshot |-> open_positions, i |-> 1,
                        polls |-> mon.polls + 1]
    /\ UNCHANGED <<mon_last, ts_reached>>
    /\ UNCHANGED <<pmVars, apVars, detVars, feeVars, auxVars, exVars, gateVars>>

\* one round of the loop of _check_all_positions, for the next position of
\* the snapshot: no price for it, or update_price, _check_exit_conditions and
\* - with a reason - close_position up to its await
MonPollStep ==
    /\ mon.pc = "loop"
    /\ pm_task["monitor"].pc = "idle"
    /\ LET o == mon.snapshot[mon.i]
           next == IF mon.i = Len(mon.snapshot)
                   THEN [pc |-> "idle", snapshot |-> <<>>, i |-> 0, polls |-> mon.polls]
                   ELSE [mon EXCEPT !.i = @ + 1]
       IN  /\ mon' = next
           /\ \E price \in PriceLevels \cup {NoneVal} :
                IF price = NoneVal
                THEN UNCHANGED <<pm_objs, pm_task, pm_ret, mon_last, ts_reached>>
                ELSE LET r == CheckExitConditions(UpdatePrice(pm_objs[o], price), now)
                         b == CloseBeginRes("monitor", pm_objs[o].id, r.reason, price)
                     IN  /\ pm_objs' = [pm_objs EXCEPT ![o] = r.pos]
                         /\ ts_reached' =
                                IF r.pos.unrealized_pnl_pct >= trailing_stop_activation_pct
                                THEN ts_reached \cup {o} ELSE ts_reached
                         /\ mon_last' = [obj |-> o, was_open |-> IsOpen(pm_objs[o]),
                                         price |-> price,
                                         pnl_pct |-> r.pos.unrealized_pnl_pct,
                                         hold_min |-> HoldMinutes(pm_objs[o], now),
                                         stop_price |-> r.pos.trailing_stop_price,
                                         active |-> r.pos.trailing_stop_active,
                                         reason |-> r.reason]
                         /\ IF r.reason # "None"
                            THEN pm_task' = b.task /\ pm_ret' = b.ret
                            ELSE UNCHANGED <<pm_task, pm_ret>>
    /\ UNCHANGED <<pm_positions, pm_by_mint, exits_executed, pm_file, pm_sells, pm_on_exit>>
    /\ UNCHANGED <<apVars, detVars, feeVars, auxVars, exVars, gateVars>>

\* the clock advances by HoldStep seconds, more than max_hold_minutes
HoldTick ==
    /\ ticks < MaxHoldTicks
    /\ now' = now + HoldStep
    /\ ticks' = ticks + 1
    /\ UNCHANGED <<pcfg_manual, pstate, ap_last, critical_latched, fail_run>>
    /\ UNCHANGED notApVars

\* the executor adds a position while the monitor runs
MonAddPosition ==
    /\ Len(pm_objs) < MaxMonitored
    /\ \E m \in MonMints : PmAddPositionOf(m)

\* flatten_positions closes a position while the monitor runs
PmFlattenClose == PmCloseBeginBy("flatten")

(***************************************************************************)
(* Priority fee tuner (trading/fee_tuner.py)                               *)
(***************************************************************************)
MaxFeeTicks == 2       \* the clock advances at most this many times beside the tuner

\* FeeConfig defaults, in percent, seconds and microlamports
success_decrease_pct == 10
failure_increase_pct == 50
timeout_increase_pct == 25
high_congestion_multiplier == 2
critical_congestion_multiplier == 4
adjustment_cooldown_sec == 30
MaxRecent == 20

\* FeeConfig() as PriorityFeeTuner.__init__ builds it without environment
DefaultFeeConfig == [min_fee |-> 10000, base_fee |-> 50000, max_fee |-> 1000000]

\* the fee bounds of a run (PRIORITY_FEE_MICROLAMPORTS,
\* MIN_/MAX_PRIORITY_FEE_MICROLAMPORTS), with min_fee <= base_fee <= max_fee
FeeConfigs ==
    {DefaultFeeConfig,
     [min_fee |-> 40000, base_fee |-> 50000, max_fee |-> 60000],
     [min_fee |-> 50000, base_fee |-> 50000, max_fee |-> 50000]}

CongestionLevels == {"low", "normal", "high", "critical"}

\* the error_type values the executor passes: _classify_error gives "timeout"
\* among others, a failed swap gives "swap_failed"
ErrorTypes == {"timeout", "swap_failed"}

ClampFee_off(fee, cfg) == fee

\* PriorityFeeTuner._clamp_fee
ClampFee(fee, cfg) ==
    LET capped == IF fee < cfg.max_fee THEN fee ELSE cfg.max_fee
    IN  IF cfg.min_fee > capped THEN cfg.min_fee ELSE capped

\* the multiplier of get_current_fee in quarters: 0.75, 1.0, high, critical
MultiplierQ(level) ==
    CASE level = "low" -> 3
      [] level = "normal" -> 4
      [] level = "high" -> 4 * high_congestion_multiplier
      [] level = "critical" -> 4 * critical_congestion_multiplier

\* int(current_fee * multiplier), before the clamp
AdjustedFee(st) == (st.current_fee * MultiplierQ(st.congestion_level)) \div 4

\* PriorityFeeTuner.get_current_fee
GetCurrentFee(st, cfg) == ClampFee(AdjustedFee(st), cfg)

\* int(current_fee * (1 + pct / 100)), pct negative for a decrease
ScaleFee(fee, pct) == (fee * (100 + pct)) \div 100

\* FeeState(current_fee = base_fee)
FeeStateInit(cfg) ==
    [current_fee |-> cfg.base_fee, last_adjustment |-> 0, consecutive_successes |-> 0,
     consecutive_failures |-> 0, recent_outcomes |-> 0, congestion_level |-> "normal"]

\* success: the outcome the latest record_outcome call reported; flip: changes
\* at every record_outcome call, so that a call that alters nothing is a step
FeeLastNone == [op |-> "None", raw |-> 0, ret |-> 0, success |-> FALSE, flip |-> FALSE]

FeeInitWith(cfg) ==
    /\ fee_cfg = cfg
    /\ fee_state = FeeStateInit(cfg)
    /\ fee_last = FeeLastNone

FeeInit == FeeInitWith(DefaultFeeConfig)

\* record_outcome(success, error_type = error_type) at time t: the fee
\* before the final clamp, and the state after the call.  recent_outcomes is
\* a deque(maxlen = 20); the model keeps its length.
RecordOutcomeRes(st, cfg, success, error_type, t) ==
    IF t - st.last_adjustment < adjustment_cooldown_sec
    THEN [raw |-> st.current_fee, st |-> st]
    ELSE LET st1 == [st EXCEPT !.recent_outcomes = IF @ < MaxRecent THEN @ + 1 ELSE @]
             st2 == IF success
                    THEN LET n == st.consecutive_successes + 1
                         IN  [st1 EXCEPT !.consecutive_successes = n,
                                         !.consecutive_failures = 0,
                                         !.current_fee =
                                             IF n >= 3 THEN ScaleFee(@, -success_decrease_pct)
                                             ELSE @,
                                         !.last_adjustment = IF n >= 3 THEN t ELSE @]
                    ELSE [st1 EXCEPT !.consecutive_failures = @ + 1,
                                     !.consecutive_successes = 0,
                                     !.current_fee =
                                         IF error_type \in {"timeout", "blockhash_expired"}
                                         THEN ScaleFee(@, timeout_increase_pct)
                                         ELSE ScaleFee(@, failure_increase_pct),
                                     !.last_adjustment = t]
         IN  [raw |-> st2.current_fee,
              st |-> [st2 EXCEPT !.current_fee = ClampFee(@, cfg)]]

FeeRecordOutcome ==
    \E success \in BOOLEAN : \E error_type \in ErrorTypes :
      LET r == RecordOutcomeRes(fee_state, fee_cfg, success, error_type, now)
      IN  /\ fee_state' = r.st
          /\ fee_last' = [op |-> "record_outcome", raw |-> r.raw, ret |-> r.st.current_fee,
                          success |-> success, flip |-> ~fee_last.flip]
          /\ UNCHANGED fee_cfg
          /\ UNCHANGED <<apVars, detVars, pmVars, exVars, gateVars, monVars, auxVars>>

\* PriorityFeeTuner.update_congestion
FeeUpdateCongestion ==
    \E level \in CongestionLevels :
      /\ fee_state' = [fee_state EXCEPT !.congestion_level = level]
      /\ UNCHANGED <<fee_cfg, fee_last>>
      /\ UNCHANGED <<apVars, detVars, pmVars, exVars, gateVars, monVars, auxVars>>

\* PriorityFeeTuner.reset_to_base
FeeResetToBase ==
    /\ fee_state' = [fee_state EXCEPT !.current_fee = fee_cfg.base_fee,
                                      !.consecutive_successes = 0,
                                      !.consecutive_failures = 0,
                                      !.last_adjustment = 0]
    /\ UNCHANGED <<fee_cfg, fee_last>>
    /\ UNCHANGED <<apVars, detVars, pmVars, exVars, gateVars, monVars, auxVars>>

\* a call of get_current_fee
FeeGetCurrentFee ==
    /\ fee_last' = [op |-> "get_current_fee", raw |-> AdjustedFee(fee_state),
                    ret |-> GetCurrentFee(fee_state, fee_cfg),
                    success |-> FALSE, flip |-> fee_last.flip]
    /\ UNCHANGED <<fee_cfg, fee_state>>
    /\ UNCHANGED <<apVars, detVars, pmVars, exVars, gateVars, monVars, auxVars>>

\* the clock advances by the cooldown beside the tuner
FeeTick ==
    /\ ticks < MaxFeeTicks
    /\ now' = now + adjustment_cooldown_sec
    /\ ticks' = ticks + 1
    /\ UNCHANGED <<pcfg_manual, pstate, ap_last, critical_latched, fail_run>>
    /\ UNCHANGED notApVars

(***************************************************************************)
(* AMM math and dynamic sizing (raydium_direct/amm_math.py,                *)
(* trading/sizing.py).  Amounts and reserves are whole numbers of the       *)
(* smallest unit, as in the source; the model takes them small.             *)
(***************************************************************************)
MaxAmount == 12        \* the largest amount in
MaxReserve == 12       \* the largest of the small reserves

fee_numerator == 25
fee_denominator == 10000

\* SizingParams defaults
target_impact_bps == 100
max_impact_bps == 500

\* max_liquidity_pct = 2.5, in thousandths of the reserve
max_liquidity_pm == 25

\* everything but the variables of this and the following components
mainVars == <<apVars, detVars, pmVars, exVars, gateVars, monVars, feeVars>>

Amounts == 1 .. MaxAmount

\* the reserves of a pool: every small one, and some deeper pools
Reserves == (1 .. MaxReserve) \cup {40, 100, 400, 1000, 1650, 16500}

\* int(params.min_buy_sol * 1e9) and int(params.max_buy_sol * 1e9) of a run
SizingLimits == {[min_buy |-> 1, max_buy |-> MaxAmount], [min_buy |-> 3, max_buy |-> MaxAmount]}

CalculateSwapOutput_off(amount_in, reserve_in, reserve_out) ==
    LET amount_in_with_fee == amount_in * (fee_denominator - fee_numerator)
        numerator == amount_in_with_fee * reserve_out
        denominator == reserve_in * fee_denominator
    IN  IF denominator # 0 THEN numerator \div denominator ELSE 0

\* calculate_swap_output with the default fee
CalculateSwapOutput(amount_in, reserve_in, reserve_out) ==
    LET amount_in_with_fee == amount_in * (fee_denominator - fee_numerator)
        numerator == amount_in_with_fee * reserve_out
        denominator == (reserve_in * fee_denominator) + amount_in_with_fee
    IN  IF denominator # 0 THEN numerator \div denominator ELSE 0

\* impact_for_amount of calculate_optimal_buy_size:
\* max(0, int((1 - (output / amount) / (base_reserve / quote_reserve)) * 10000)),
\* the quotient taken exactly
ImpactForAmount(amount, quote_reserve, base_reserve) ==
    IF amount <= 0 \/ quote_reserve = 0 \/ base_reserve = 0 THEN 0
    ELSE LET output == CalculateSwapOutput(amount, quote_reserve, base_reserve)
             lost == (amount * base_reserve) - (output * quote_reserve)
         IN  IF lost <= 0 THEN 0
             ELSE (10000 * lost) \div (amount * base_reserve)

\* the binary search for the largest amount within the target impact
RECURSIVE TargetSearch(_, _, _, _, _)
TargetSearch(low, high, target_amount, quote_reserve, base_reserve) ==
    IF low > high THEN target_amount
    ELSE LET mid == (low + high) \div 2
         IN  IF ImpactForAmount(mid, quote_reserve, base_reserve) <= target_impact_bps
             THEN TargetSearch(mid + 1, high, mid, quote_reserve, base_reserve)
             ELSE TargetSearch(low, mid - 1, target_amount, quote_reserve, base_reserve)

\* the loop of the max-impact cap: final_amount = int(final_amount * 0.9)
\* while it is above the minimum and its impact above the maximum
RECURSIVE ImpactCap(_, _, _, _)
ImpactCap(final_amount, min_lamports, quote_reserve, base_reserve) ==
    IF final_amount > min_lamports
       /\ ImpactForAmount(final_amount, quote_reserve, base_reserve) > max_impact_bps
    THEN ImpactCap((final_amount * 9) \div 10, min_lamports, quote_reserve, base_reserve)
    ELSE final_amount

\* int(quote_reserve * max_liquidity_pct / 100)
MaxLiqAmount(quote_reserve) == (quote_reserve * max_liquidity_pm) \div 1000

\* calculate_optimal_buy_size: recommended_amount, expected_impact_bps,
\* capped_by, and the target_amount its binary search found
CalculateOptimalBuySize(quote_reserve, base_reserve, lim) ==
    LET target_amount == TargetSearch(lim.min_buy, lim.max_buy, lim.min_buy,
                                      quote_reserve, base_reserve)
        over == ImpactForAmount(target_amount, quote_reserve, base_reserve) > max_impact_bps
        a1 == IF over THEN ImpactCap(target_amount, lim.min_buy, quote_reserve, base_reserve)
              ELSE target_amount
        c1 == IF over THEN "max_impact" ELSE "target_impact"
        a2 == IF a1 > lim.max_buy THEN lim.max_buy ELSE a1
        c2 == IF a1 > lim.max_buy THEN "max_sol" ELSE c1
        max_liq_amount == MaxLiqAmount(quote_reserve)
        liq == max_liq_amount # 0 /\ a2 > max_liq_amount
        a3 == IF liq THEN max_liq_amount ELSE a2
        c3 == IF liq THEN "max_liq_pct" ELSE c2
        a4 == IF a3 < lim.min_buy THEN lim.min_buy ELSE a3
        c4 == IF a3 < lim.min_buy THEN "min_sol" ELSE c3
    IN  [target_amount |-> target_amount,
         recommended_amount |-> a4,
         expected_impact_bps |-> ImpactForAmount(a4, quote_reserve, base_reserve),
         capped_by |-> c4]

\* no call has been made: the arguments of the sizing functions at rest
SzInNone == [amount_a |-> 1, amount_b |-> 1, quote_reserve |-> 1, base_reserve |-> 1,
             lim |-> [min_buy |-> 1, max_buy |-> MaxAmount]]

\* no result yet
SzImpactNone == [a |-> NoneVal, b |-> NoneVal]

SzOptNone == [target_amount |-> NoneVal, recommended_amount |-> NoneVal, expected_impact_bps |-> NoneVal,
              capped_by |-> "None"]

SzInit ==
    /\ sz_in = SzInNone
    /\ sz_swap = NoneVal
    /\ sz_impact = SzImpactNone
    /\ sz_opt = SzOptNone

\* calculate_swap_output(amount_a, quote_reserve, base_reserve)
SzSwapOutput ==
    /\ sz_swap = NoneVal
    /\ sz_swap' = CalculateSwapOutput(sz_in.amount_a, sz_in.quote_reserve, sz_in.base_reserve)
    /\ UNCHANGED <<sz_in, sz_impact, sz_opt>>
    /\ UNCHANGED <<mainVars, pcVars, igVars, safVars>>

\* impact_for_amount for the two amounts
SzImpact ==
    /\ sz_impact = SzImpactNone
    /\ sz_impact' = [a |-> ImpactForAmount(sz_in.amount_a, sz_in.quote_reserve,
                                           sz_in.base_reserve),
                     b |-> ImpactForAmount(sz_in.amount_b, sz_in.quote_reserve,
                                           sz_in.base_reserve)]
    /\ UNCHANGED <<sz_in, sz_swap, sz_opt>>
    /\ UNCHANGED <<mainVars, pcVars, igVars, safVars>>

\* calculate_optimal_buy_size for the reserves and limits
SzOptimalBuySize ==
    /\ sz_opt = SzOptNone
    /\ sz_opt' = CalculateOptimalBuySize(sz_in.quote_reserve, sz_in.base_reserve, sz_in.lim)
    /\ UNCHANGED <<sz_in, sz_swap, sz_impact>>
    /\ UNCHANGED <<mainVars, pcVars, igVars, safVars>>

(***************************************************************************)
(* Pool cache (raydium_direct/cache.py).  The dictionary is a sequence of    *)
(* entries in insertion order; times are milliseconds.                      *)
(***************************************************************************)
MaxCacheTicks == 13    \* clock advances of the cache
MaxCacheSize == 2      \* max_size of the cache

ttl_ms_hot == 5000
ttl_ms_cold == 30000

\* the clock advances by half the hot TTL
CacheTickMs == ttl_ms_hot \div 2

CacheKeys == {"pool:AAA", "market:AAA"}

\* the cached object: the model keeps when and how it was stored
NoValue == [set_at |-> NoneVal, hot |-> FALSE]

TtlOf(hot) == IF hot THEN ttl_ms_hot ELSE ttl_ms_cold

CacheHas(c, key) == \E i \in 1 .. Len(c) : c[i].key = key

CacheIndex(c, key) == CHOOSE i \in 1 .. Len(c) : c[i].key = key

CacheWithout(c, key) == SelectSeq(c, LAMBDA e : e.key # key)

\* min(self._cache.items(), key=lambda kv: kv[1][0])[0]: the first entry, in
\* insertion order, with the least expires_at
OldestKey(c) ==
    LET i == CHOOSE j \in 1 .. Len(c) :
                 /\ \A l \in 1 .. Len(c) : c[j].expires_at <= c[l].expires_at
                 /\ \A l \in 1 .. (j - 1) : c[l].expires_at > c[j].expires_at
    IN  c[i].key

CacheGetRes_off(c, key, t) ==
    IF ~CacheHas(c, key) THEN [value |-> NoValue, cache |-> c]
    ELSE [value |-> c[CacheIndex(c, key)].value, cache |-> c]

\* PoolCache.get at time t: the returned value and the dictionary afterwards
CacheGetRes(c, key, t) ==
    IF ~CacheHas(c, key) THEN [value |-> NoValue, cache |-> c]
    ELSE LET entry == c[CacheIndex(c, key)]
         IN  IF t > entry.expires_at
             THEN [value |-> NoValue, cache |-> CacheWithout(c, key)]
             ELSE [value |-> entry.value, cache |-> c]

\* PoolCache.set at time t: the dictionary afterwards
CacheSetRes(c, key, value, hot, t) ==
    LET ttl == TtlOf(hot)
        entry == [key |-> key, expires_at |-> t + ttl, value |-> value, ttl |-> ttl]
        c1 == IF Len(c) >= MaxCacheSize THEN CacheWithout(c, OldestKey(c)) ELSE c
    IN  IF CacheHas(c1, key)
        THEN [c1 EXCEPT ![CacheIndex(c1, key)] = entry]
        ELSE Append(c1, entry)

\* no get has been made
PcLastNone == [op |-> "None", key |-> "None", value |-> NoValue, at |-> NoneVal,
               expired |-> FALSE]

PcInit ==
    /\ pc_cache = << >>
    /\ pc_now = 0
    /\ pc_last = PcLastNone

PcGet(key) ==
    LET r == CacheGetRes(pc_cache, key, pc_now)
        stored == IF CacheHas(pc_cache, key)
                  THEN pc_cache[CacheIndex(pc_cache, key)].value ELSE NoValue
    IN  /\ pc_cache' = r.cache
        /\ pc_last' = [op |-> "get", key |-> key, value |-> r.value, at |-> pc_now,
                       expired |-> /\ stored # NoValue
                                   /\ pc_now > stored.set_at + TtlOf(stored.hot)]
        /\ UNCHANGED pc_now
        /\ UNCHANGED <<mainVars, szVars, igVars, safVars>>

PcSet(key, hot) ==
    /\ pc_cache' = CacheSetRes(pc_cache, key, [set_at |-> pc_now, hot |-> hot], hot, pc_now)
    /\ pc_last' = PcLastNone
    /\ UNCHANGED pc_now
    /\ UNCHANGED <<mainVars, szVars, igVars, safVars>>

PcInvalidate(key) ==
    /\ pc_cache' = CacheWithout(pc_cache, key)
    /\ pc_last' = [PcLastNone EXCEPT !.op = "invalidate", !.key = key]
    /\ UNCHANGED pc_now
    /\ UNCHANGED <<mainVars, szVars, igVars, safVars>>

\* time.time() moves on
PcTick ==
    /\ pc_now < MaxCacheTicks * CacheTickMs
    /\ pc_now' = pc_now + CacheTickMs
    /\ pc_last' = PcLastNone
    /\ UNCHANGED pc_cache
    /\ UNCHANGED <<mainVars, szVars, igVars, safVars>>

(***************************************************************************)
(* Lifecycle of the firehose ingestor (bundle_detector.py start, stop,      *)
(* _connect_and_listen).  ig_pc is the await the start() task is pending   *)
(* on; ig_ws is the state of the connection self._ws refers to.            *)
(***************************************************************************)
MaxAttempts == 3       \* connection attempts of one run
MaxMessages == 3       \* frames handled on the connections of one run

StartLoopContinues_off(running) == TRUE

\* while self._running
StartLoopContinues(running) == running

IgInit ==
    /\ ig_pc = "idle"
    /\ ig_running = FALSE
    /\ ig_ws = "None"
    /\ ig_url = TRUE
    /\ ig_stopped = FALSE
    /\ ig_attempts = 0
    /\ ig_msgs = 0

\* the head of the loop of start(): another _connect_and_listen, or return
IgLoopHead(running, attempts) ==
    IF StartLoopContinues(running)
    THEN /\ attempts < MaxAttempts
         /\ ig_pc' = "connecting"
         /\ ig_attempts' = attempts + 1
    ELSE /\ ig_pc' = "returned"
         /\ ig_attempts' = attempts

\* start() up to its first await
IgStart ==
    /\ ig_pc = "idle"
    /\ IF ~ig_url
       THEN /\ ig_pc' = "returned"
            /\ UNCHANGED <<ig_running, ig_attempts>>
       ELSE /\ ig_running' = TRUE
            /\ IgLoopHead(TRUE, ig_attempts)
    /\ UNCHANGED <<ig_ws, ig_url, ig_stopped, ig_msgs>>
    /\ UNCHANGED <<mainVars, szVars, pcVars, safVars>>

\* stop(): clears the flag and closes the connection self._ws refers to
IgStop ==
    /\ ig_running' = FALSE
    /\ ig_ws' = IF ig_ws = "None" THEN "None" ELSE "closed"
    /\ ig_stopped' = (ig_stopped \/ ig_pc # "idle")
    /\ UNCHANGED <<ig_pc, ig_url, ig_attempts, ig_msgs>>
    /\ UNCHANGED <<mainVars, szVars, pcVars, safVars>>

\* websockets.connect completes: connected, or an exception
IgConnectDone(ok) ==
    /\ ig_pc = "connecting"
    /\ IF ok
       THEN /\ ig_ws' = "open"
            /\ ig_pc' = "subscribing"
       ELSE /\ ig_pc' = "sleeping"
            /\ UNCHANGED ig_ws
    /\ UNCHANGED <<ig_running, ig_url, ig_stopped, ig_attempts, ig_msgs>>
    /\ UNCHANGED <<mainVars, szVars, pcVars, safVars>>

\* ws.send of _subscribe_firehose completes: sent, or an exception, which
\* leaves the async with and closes the connection
IgSubscribeDone(ok) ==
    /\ ig_pc = "subscribing"
    /\ ok => ig_ws = "open"
    /\ IF ok
       THEN /\ ig_pc' = "listening"
            /\ UNCHANGED ig_ws
       ELSE /\ ig_pc' = "sleeping"
            /\ ig_ws' = "closed"
    /\ UNCHANGED <<ig_running, ig_url, ig_stopped, ig_attempts, ig_msgs>>
    /\ UNCHANGED <<mainVars, szVars, pcVars, safVars>>

\* the next step of `async for message in ws`: a frame (handled, or the
\* break when the flag is down), the end of the stream, or an exception
IgListenStep(what) ==
    /\ ig_pc = "listening"
    /\ what = "message" => ig_ws = "open"
    /\ IF what = "message" /\ ig_running
       THEN /\ ig_msgs < MaxMessages
            /\ ig_msgs' = ig_msgs + 1
            /\ UNCHANGED <<ig_pc, ig_ws, ig_attempts>>
       ELSE IF what = "error"
       THEN /\ ig_pc' = "sleeping"
            /\ ig_ws' = "closed"
            /\ UNCHANGED <<ig_attempts, ig_msgs>>
       ELSE /\ ig_ws' = "closed"
            /\ IgLoopHead(ig_running, ig_attempts)
            /\ UNCHANGED ig_msgs
    /\ UNCHANGED <<ig_running, ig_url, ig_stopped>>
    /\ UNCHANGED <<mainVars, szVars, pcVars, safVars>>

\* asyncio.sleep(1) after a connection error completes
IgSleepDone ==
    /\ ig_pc = "sleeping"
    /\ IgLoopHead(ig_running, ig_attempts)
    /\ UNCHANGED <<ig_running, ig_ws, ig_url, ig_stopped, ig_msgs>>
    /\ UNCHANGED <<mainVars, szVars, pcVars, safVars>>

\* no check_token call made yet
SafetyLastNone ==
    [op |-> "None", mint |-> "", cached |-> FALSE, rpc |-> "None", is_safe |-> FALSE,
     acc |-> [len |-> 0, mint_auth_option |-> 0, mint_authority |-> "",
              freeze_auth_option |-> 0, freeze_authority |-> "", token_2022 |-> FALSE]]

SafInit == safety_last = SafetyLastNone

AuxInit ==
    /\ SzInit
    /\ PcInit
    /\ IgInit
    /\ SafInit

(***************************************************************************)
(* Trade executor (executor.py) and the gates of execute_buy               *)
(***************************************************************************)
MaxCalls == 2          \* calls of the entry paths in one run

\* the mints the entry paths are called for
Tokens == PmMints

\* amounts are in tenths of a SOL
default_buy_sol == 1
max_per_token_sol == 20
max_global_sol == 50

max_swap_retries == 2

\* flags as TradeExecutor.__init__ reads them with no environment set
enable_auto_pause == TRUE
enable_token_safety == TRUE
dry_run == FALSE

\* SafetyConfig as the executor builds it with no environment set
require_mint_renounced == TRUE
require_freeze_renounced == TRUE
allow_token_2022 == FALSE

\* TOKEN_WHITELIST of the run
whitelist_mints == {"BBBBBBBB1"}

BURNED_ADDRESSES == {"1nc1nerator11111111111111111111111111111111",
                     "11111111111111111111111111111111"}

MINT_LAYOUT_SIZE == 82

\* The mint accounts on chain: the length of the account data, the two
\* option-encoded authorities and the owning program.
MintAccount(mint) ==
    CASE mint = "AAAAAAAA1" ->
           [len |-> 82, mint_auth_option |-> 1,
            mint_authority |-> "1nc1nerator11111111111111111111111111111111",
            freeze_auth_option |-> 0, freeze_authority |-> "", token_2022 |-> FALSE]
      [] mint = "AAAAAAAA2" ->
           [len |-> 82, mint_auth_option |-> 1, mint_authority |-> "Bauthority",
            freeze_auth_option |-> 0, freeze_authority |-> "", token_2022 |-> FALSE]
      [] mint = "BBBBBBBB1" ->
           [len |-> 82, mint_auth_option |-> 1, mint_authority |-> "Bauthority",
            freeze_auth_option |-> 0, freeze_authority |-> "", token_2022 |-> FALSE]

\* TokenSafetyChecker._parse_mint_account; "None" is Python's None
ParseMintAccount(data) ==
    IF data.len < MINT_LAYOUT_SIZE
    THEN [mint_authority |-> "None", freeze_authority |-> "None"]
    ELSE [mint_authority |-> IF data.mint_auth_option = 1 THEN data.mint_authority ELSE "None",
          freeze_authority |-> IF data.freeze_auth_option = 1 THEN data.freeze_authority ELSE "None"]

IsRenounced_off(authority) == TRUE

\* TokenSafetyChecker._is_renounced
IsRenounced(authority) == authority = "None" \/ authority \in BURNED_ADDRESSES

\* the mint has a mint authority that is set and not burned
MintAuthorityActive(mint) ==
    /\ MintAccount(mint).mint_auth_option = 1
    /\ MintAccount(mint).mint_authority \notin BURNED_ADDRESSES

\* what get_account_info does in check_token: answers, finds no account, raises
SafetyRpc == {"ok", "not_found", "error"}

\* TokenSafetyChecker.check_token: the cache after the call and is_safe
\* acc: the account data get_account_info answers with
CheckTokenOn(cache, mint, rpc, acc) ==
    IF mint \in cache THEN [cache |-> cache, is_safe |-> TRUE]
    ELSE IF mint \in whitelist_mints THEN [cache |-> cache \cup {mint}, is_safe |-> TRUE]
    ELSE IF rpc = "error" THEN [cache |-> cache, is_safe |-> FALSE]
    ELSE IF rpc = "not_found" \/ acc.len = 0 THEN [cache |-> cache, is_safe |-> FALSE]
    ELSE LET auth == ParseMintAccount(acc)
             mint_renounced == IsRenounced(auth.mint_authority)
             freeze_renounced == IsRenounced(auth.freeze_authority)
             is_safe == /\ ~(require_mint_renounced /\ ~mint_renounced)
                        /\ ~(require_freeze_renounced /\ ~freeze_renounced)
                        /\ ~(acc.token_2022 /\ ~allow_token_2022)
         IN  [cache |-> IF is_safe THEN cache \cup {mint} ELSE cache, is_safe |-> is_safe]

\* check_token on the mint accounts of the run
CheckTokenRes(cache, mint, rpc) == CheckTokenOn(cache, mint, rpc, MintAccount(mint))

\* Account data an address handed to check_token can hold: shorter than the
\* mint layout, of its length, or longer (a token account has 165 bytes),
\* with any little-endian u32 at the two option offsets.
AccountLens == {0, MINT_LAYOUT_SIZE - 1, MINT_LAYOUT_SIZE, 165}
OptionTags == {0, 1, 2}
Authorities == {"Bauthority", "1nc1nerator11111111111111111111111111111111"}

AccountDatas ==
    [len : AccountLens, mint_auth_option : OptionTags, mint_authority : Authorities,
     freeze_auth_option : OptionTags, freeze_authority : {"Bauthority"},
     token_2022 : BOOLEAN]

\* a call of check_token on an address whose account holds acc
SafCheckToken ==
    \E mint \in Tokens, rpc \in SafetyRpc, acc \in AccountDatas :
      LET r == CheckTokenOn(safety_cache, mint, rpc, acc)
      IN  /\ safety_cache' = r.cache
          /\ safety_last' = [op |-> "check_token", mint |-> mint,
                             cached |-> mint \in safety_cache, rpc |-> rpc,
                             is_safe |-> r.is_safe, acc |-> acc]
          /\ UNCHANGED <<ex_cfg, ex_positions, trades_today, ex_calls, ex_subs, ex_last,
                         ex_gates>>
          /\ UNCHANGED <<apVars, detVars, pmVars, gateVars, monVars, feeVars,
                         szVars, pcVars, igVars>>

RECURSIVE SumIn(_, _)
SumIn(positions, toks) ==
    IF toks = {} THEN 0
    ELSE LET t == CHOOSE x \in toks : TRUE
         IN  positions[t] + SumIn(positions, toks \ {t})

\* TradeExecutor._exposure_allows; has_td: token_data is given and names the token
ExposureAllows(positions, has_td, token) ==
    IF ~has_td THEN TRUE
    ELSE IF positions[token] >= max_per_token_sol THEN FALSE
    ELSE IF SumIn(positions, Tokens) + default_buy_sol > max_global_sol THEN FALSE
    ELSE TRUE

\* What _pretrade_checks meets: "ok" nothing to object to; "rejected" a flag
\* of the risk sources or a limit exceeded; "source_error" a transport error
\* or timeout of RugCheck / GoPlus, which risk_sources._get turns into None;
\* "quote_error" a transport error or timeout of the sell test quote or of
\* the simulation, which _get_quote_full / _simulate_swap turn into None /
\* False; "exception" an exception raised in _pretrade_checks itself.
PretradeOutcomes == {"ok", "rejected", "source_error", "quote_error", "exception"}

\* TradeExecutor._pretrade_checks
PretradeChecks(outcome) == outcome \in {"ok", "source_error", "exception"}

\* the checks were not reached
GatesNone == [pretrade |-> "None", safety |-> "None"]

\* what check_token met: "None" when it answered from the cache or the
\* whitelist, without get_account_info
SafetyMet(cache, mint, rpc) ==
    IF rpc # "loop_error" /\ (mint \in cache \/ mint \in whitelist_mints) THEN "None" ELSE rpc

\* One attempt of _execute_swap_with_retry: no transaction to send (no fresh
\* quote, build error, exception), _send_transaction returns None, or it
\* returns a signature.
AttemptOutcomes == {"no_tx", "send_none", "sig"}

Attempts == 1 .. (max_swap_retries + 1)

\* The runs of attempts drawn for a buy.  For a buy an attempt without a
\* transaction and one whose submission returns None both go on to the next
\* attempt, so the runs drawn are those of submissions.
BuyAttemptRuns == [Attempts -> {"send_none", "sig"}]

\* what get_balance answers in check_balance: a balance, or it raises
BalanceResponses == BalanceValues \cup {RaiseVal}

\* TradeExecutor._execute_swap_with_retry from attempt i on: the value it
\* returns, the attempts whose submission returned a signature (a signature
\* is named by its attempt) and the number of submissions
RECURSIVE SwapWithRetry(_, _, _)
SwapWithRetry(outs, reverse, i) ==
    IF i \notin Attempts THEN [ret |-> NoneVal, sigs |-> {}, sends |-> 0]
    ELSE IF outs[i] = "no_tx" THEN SwapWithRetry(outs, reverse, i + 1)
    ELSE IF reverse
         THEN [ret |-> IF outs[i] = "sig" THEN i ELSE NoneVal,
               sigs |-> IF outs[i] = "sig" THEN {i} ELSE {},
               sends |-> 1]
         ELSE LET r == SwapWithRetry(outs, reverse, i + 1)
              IN  [ret |-> r.ret,
                   sigs |-> r.sigs \cup (IF outs[i] = "sig" THEN {i} ELSE {}),
                   sends |-> r.sends + 1]

\* the configurations of a run: the snipers all disabled or all enabled
\* (ENABLE_SNIPE, ENABLE_KOL_SNIPE, ENABLE_BUNDLE_SNIPE), REQUIRE_DIRECT_DEX
ExConfigs == {[snipers |-> FALSE, require_direct_dex |-> FALSE],
              [snipers |-> TRUE, require_direct_dex |-> TRUE]}

\* no entry path has been called yet
ExLastNone ==
    [op |-> "None", token |-> "None", status |-> "None", tx_signature |-> NoneVal,
     sigs |-> {}, attempted |-> FALSE, entry_fuse |-> FALSE, fuse |-> FALSE,
     balance_rule |-> "None", gate |-> "None", added |-> 0, pause_file |-> FALSE]

\* everything off, as with no environment set
DefaultConfig == [snipers |-> FALSE, require_direct_dex |-> FALSE]

ExInitRun ==
    /\ ex_positions = [t \in Tokens |-> 0]
    /\ trades_today = 0
    /\ safety_cache = {}
    /\ ex_calls = 0
    /\ ex_subs = [t \in Tokens |-> 0]
    /\ ex_last = ExLastNone
    /\ ex_gates = GatesNone
    /\ pause_flag = FALSE
    /\ today = 0
    /\ day_started = 0
    /\ mon_approved = FALSE
    /\ day_subs = 0
    /\ flag_removed_by = "None"

ExInit ==
    /\ ex_cfg = DefaultConfig
    /\ max_daily_trades = 0
    /\ ExInitRun

\* what an entry-path call did, for ex_last
CallInfo(status, tx_signature, sigs, attempted, entry_fuse, fuse, balance_rule, gate) ==
    [status |-> status, tx_signature |-> tx_signature, sigs |-> sigs,
     attempted |-> attempted, entry_fuse |-> entry_fuse, fuse |-> fuse,
     balance_rule |-> balance_rule, gate |-> gate]

\* The end of an entry-path call: the pause manager state and the safety
\* cache it leaves, the submissions it made, and - with track - the position
\* it hands to add_position.  counted: the submissions went through
\* _execute_swap_with_retry, which counts them in _trades_today.
ExFinishAt(op, token, ps, crit, cache, info, counted, track, own_position, met) ==
    /\ ex_gates' = met
    /\ pstate' = ps
    /\ critical_latched' = crit
    /\ safety_cache' = cache
    /\ ex_calls' = ex_calls + 1
    /\ ex_subs' = [ex_subs EXCEPT ![token] = @ + Cardinality(info.sigs)]
    /\ trades_today' = IF counted THEN trades_today + Cardinality(info.sigs) ELSE trades_today
    /\ ex_positions' = IF own_position
                       THEN [ex_positions EXCEPT ![token] = default_buy_sol]
                       ELSE ex_positions
    /\ ex_last' = [op |-> op, token |-> token, status |-> info.status,
                   tx_signature |-> info.tx_signature, sigs |-> info.sigs,
                   attempted |-> info.attempted, entry_fuse |-> info.entry_fuse,
                   fuse |-> info.fuse, balance_rule |-> info.balance_rule,
                   gate |-> info.gate, added |-> IF track THEN 1 ELSE 0,
                   pause_file |-> pause_flag]
    /\ day_subs' = day_subs + Cardinality(info.sigs)
    /\ mon_approved' = IF op = "execute_buy" THEN FALSE ELSE mon_approved
    /\ UNCHANGED <<pause_flag, today, day_started, max_daily_trades, flag_removed_by>>
    /\ IF track
       THEN /\ Len(pm_objs) < MaxAdds
            /\ LET r == AddPositionRes(pm_objs, pm_positions, pm_by_mint, exits_executed,
                                       token, info.tx_signature, now)
               IN  /\ pm_objs' = r.objs
                   /\ pm_positions' = r.positions
                   /\ pm_by_mint' = r.by_mint
                   /\ pm_file' = r.file
       ELSE UNCHANGED <<pm_objs, pm_positions, pm_by_mint, pm_file>>
    /\ UNCHANGED <<now, pcfg_manual, ap_last, fail_run, ticks>>
    /\ UNCHANGED <<exits_executed, pm_task, pm_ret, pm_sells, pm_on_exit>>
    /\ UNCHANGED ex_cfg
    /\ UNCHANGED <<detVars, feeVars, auxVars, monVars>>

\* execute_buy from the quote on: the direct-AMM swap when a direct route is
\* required and there is no quote, otherwise _execute_buy_with_quote.
\* _get_raydium_pool always returns None (it reads self.raydium, which
\* __init__ never sets, and swallows the AttributeError), so the dynamic
\* sizing path is never taken; SENTIMENT_ENABLED and DCA_ENABLED are off.
ExBuySwap(token, has_td, ps, crit, cache, rule, met) ==
    LET fuse == Blocked(ps, now)
        Done(status, sig, sigs, attempted, track) ==
            ExFinishAt("execute_buy", token, ps, crit, cache,
                       CallInfo(status, sig, sigs, attempted, FALSE, fuse, rule, "none"),
                       status # "sent_direct", track, track, met)
    IN  \E quote \in BOOLEAN :
          IF ex_cfg.require_direct_dex /\ ~quote
          THEN \E direct \in AttemptOutcomes :
                 IF direct = "sig"
                 THEN Done("sent_direct", 1, {1}, TRUE, FALSE)
                 ELSE Done(IF dry_run THEN "simulated" ELSE "quote_unavailable",
                           NoneVal, {}, TRUE, FALSE)
          ELSE IF dry_run THEN Done("simulated", NoneVal, {}, FALSE, FALSE)
          ELSE IF ~quote THEN Done("quote_unavailable", NoneVal, {}, FALSE, FALSE)
          ELSE \E impact_ok \in BOOLEAN :
                 IF ~impact_ok
                 THEN Done("blocked_price_impact", NoneVal, {}, FALSE, FALSE)
                 ELSE \E outs \in BuyAttemptRuns :
                        LET r == SwapWithRetry(outs, FALSE, 1)
                            tx_sig == r.ret
                        IN  Done(IF tx_sig # NoneVal THEN "sent" ELSE "failed",
                                 tx_sig, r.sigs, TRUE,
                                 tx_sig # NoneVal /\ has_td /\ ~dry_run)

\* the end of an entry-path call that did not reach the pre-trade checks
ExFinish(op, token, ps, crit, cache, info, counted, track, own_position) ==
    ExFinishAt(op, token, ps, crit, cache, info, counted, track, own_position, GatesNone)

\* execute_buy from the exposure check to the token-safety check
ExBuyGates(token, has_td, ps, crit, rule) ==
    LET fuse == Blocked(ps, now)
        Stop(status, gate, cache, met) ==
            ExFinishAt("execute_buy", token, ps, crit, cache,
                       CallInfo(status, NoneVal, {}, FALSE, FALSE, fuse, rule, gate),
                       FALSE, FALSE, FALSE, met)
    IN  IF ~ExposureAllows(ex_positions, has_td, token)
        THEN Stop("blocked_exposure", "exposure", safety_cache, GatesNone)
        ELSE \E pre \in PretradeOutcomes :
               LET met0 == [pretrade |-> pre, safety |-> "None"]
               IN  IF ~PretradeChecks(pre)
                   THEN Stop("blocked_pretrade", "pretrade", safety_cache, met0)
                   ELSE IF ~enable_token_safety
                   THEN ExBuySwap(token, has_td, ps, crit, safety_cache, rule, met0)
                   ELSE \E rpc \in SafetyRpc \cup {"loop_error"} :
                          LET met == [pretrade |-> pre,
                                      safety |-> SafetyMet(safety_cache, token, rpc)]
                          IN  IF rpc = "loop_error"
                              THEN Stop("blocked", "token_safety", safety_cache, met)
                              ELSE LET sr == CheckTokenRes(safety_cache, token, rpc)
                                   IN  IF ~sr.is_safe
                                       THEN Stop("blocked", "token_safety", sr.cache, met)
                                       ELSE ExBuySwap(token, has_td, ps, crit, sr.cache,
                                                      rule, met)

\* TradeExecutor.execute_buy
ExExecuteBuy ==
    /\ ex_calls < MaxCalls
    /\ \E token \in Tokens, has_td \in BOOLEAN :
         LET ta == IsTradingAllowedRes(pstate, now)
         IN  IF ~enable_auto_pause
             THEN ExBuyGates(token, has_td, pstate, critical_latched, "None")
             ELSE IF ~ta.allowed
             THEN ExFinish("execute_buy", token, ta.state, critical_latched, safety_cache,
                           CallInfo("paused", NoneVal, {}, FALSE, TRUE, TRUE, "None", "paused"),
                           FALSE, FALSE, FALSE)
             ELSE \E resp \in BalanceResponses :
                    LET cb == CheckBalanceRes(ta.state, now, resp, pcfg_manual)
                        crit == critical_latched \/ cb.rule = "critical_balance"
                    IN  IF cb.is_crit
                        THEN ExFinish("execute_buy", token, cb.state, crit, safety_cache,
                                      CallInfo("paused", NoneVal, {}, FALSE, FALSE,
                                               Blocked(cb.state, now), cb.rule,
                                               "critical_balance"),
                                      FALSE, FALSE, FALSE)
                        ELSE ExBuyGates(token, has_td, cb.state, crit, cb.rule)

(***************************************************************************)
(* The snipers (kol_sniper.py, bundle_sniper.py, snipe_executor.py)        *)
(***************************************************************************)
\* KOLSnipeConfig: the range of KOL buys that are followed, in tenths of a SOL
min_kol_buy_sol == 3
max_kol_buy_sol == 2000

\* the sizes of the KOL buys of the stream, in tenths of a SOL
KolAmounts == {1, 10}

\* BundleSniper: confidence in hundredths, volume in tenths of a SOL
min_confidence == 70
min_volume_sol == 20

\* SnipeConfig.min_liquidity_sol, in tenths of a SOL
min_liquidity_sol == 10

\* the launch events handed to handle_launch
BundleEvents ==
    [confidence : {50, 90}, event_type : {"new_pool", "coordinated_buy"},
     total_sol_volume : {10, 30}]

\* BundleSniper._should_snipe (BUNDLE_SKIP_DEX is empty)
ShouldSnipe(event) ==
    /\ ~(event.confidence < min_confidence)
    /\ ~(event.event_type = "coordinated_buy" /\ event.total_sol_volume < min_volume_sol)

\* the pool events handed to handle_new_pool
PoolEvents == [initial_liquidity_sol : {0, 5, 50}, quote_is_sol : BOOLEAN]

\* SnipeExecutor._quick_validate (the mints of the model are full-length)
QuickValidate(event) ==
    /\ ~(event.initial_liquidity_sol > 0 /\ event.initial_liquidity_sol < min_liquidity_sol)
    /\ event.quote_is_sol

\* the end of a sniper call: the pause manager is not consulted or changed
SnipeFinish(op, token, status, sig, sigs, attempted, counted, track) ==
    ExFinish(op, token, pstate, critical_latched, safety_cache,
             CallInfo(status, sig, sigs, attempted, Blocked(pstate, now),
                      Blocked(pstate, now), "None", "none"),
             counted, track, FALSE)

\* KOLSniper._execute_snipe_for_token / the quote and _send_fast of
\* handle_kol_buy, then _record_position on a signature: tracked is FALSE
\* when _record_position fails before add_position (it swallows the error)
SendFast(op, token) ==
    \E quote \in BOOLEAN :
      IF ~quote THEN SnipeFinish(op, token, "no_quote", NoneVal, {}, FALSE, FALSE, FALSE)
      ELSE \E send \in AttemptOutcomes :
             IF send = "sig"
             THEN \E tracked \in BOOLEAN :
                    SnipeFinish(op, token, "sent", 1, {1}, TRUE, FALSE, tracked)
             ELSE SnipeFinish(op, token, "failed", NoneVal, {}, TRUE, FALSE, FALSE)

\* KOLSniper.handle_kol_buy
ExKolBuy ==
    /\ ex_calls < MaxCalls
    /\ ex_cfg.snipers
    /\ \E token \in Tokens, amount_sol \in KolAmounts :
         IF amount_sol < min_kol_buy_sol \/ amount_sol > max_kol_buy_sol
         THEN SnipeFinish("handle_kol_buy", token, "skipped", NoneVal, {}, FALSE, FALSE, FALSE)
         ELSE SendFast("handle_kol_buy", token)

\* BundleSniper.handle_launch
ExBundleLaunch ==
    /\ ex_calls < MaxCalls
    /\ ex_cfg.snipers
    /\ \E token \in Tokens, event \in BundleEvents :
         IF ~ShouldSnipe(event)
         THEN SnipeFinish("handle_launch", token, "skipped", NoneVal, {}, FALSE, FALSE, FALSE)
         ELSE SendFast("handle_launch", token)

\* SnipeExecutor.handle_new_pool: with ENABLE_JITO_BUNDLES off _execute_snipe
\* goes to _snipe_direct, whose Raydium fast path raises (executor.raydium
\* does not exist) and falls back to the quote and _execute_swap_with_retry
ExNewPool ==
    /\ ex_calls < MaxCalls
    /\ ex_cfg.snipers
    /\ \E token \in Tokens, event \in PoolEvents :
         IF ~QuickValidate(event)
         THEN SnipeFinish("handle_new_pool", token, "skipped", NoneVal, {}, FALSE, FALSE, FALSE)
         ELSE \E quote \in BOOLEAN :
                IF ~quote
                THEN SnipeFinish("handle_new_pool", token, "no_quote", NoneVal, {}, FALSE,
                                 FALSE, FALSE)
                ELSE \E outs \in BuyAttemptRuns :
                       LET r == SwapWithRetry(outs, FALSE, 1)
                       IN  SnipeFinish("handle_new_pool", token,
                                       IF r.ret # NoneVal THEN "sent" ELSE "failed",
                                       r.ret, r.sigs, TRUE, TRUE, FALSE)

(***************************************************************************)
(* The auto-trade gate of the monitor, the operator's flag files and the   *)
(* executor's sell (executor.py, monitor_service.py)                       *)
(***************************************************************************)
MaxDays == 1           \* the calendar day changes at most this many times
MaxTradeCalls == 1     \* executions (buys, sells) beside the monitor's gate in one run

\* the values of AUTO_TRADE_MAX_DAILY_TRADES of the runs: unlimited, a cap
DailyCaps == {0, 2}

\* TradeExecutor.enabled (ALLOW_AUTOTRADE and AUTO_TRADE_ENABLED)
enabled == TRUE

\* TradeExecutor._reset_daily_counters_if_needed: _day_started and
\* _trades_today after the call
ResetDailyCounters(started, trades, day) ==
    IF day # started THEN [day_started |-> day, trades_today |-> 0]
    ELSE [day_started |-> started, trades_today |-> trades]

\* TradeExecutor.should_trade after the counter reset; screens_ok: the
\* cluster passes the score, liquidity, pool-age, price-drop, freshness and
\* external-risk screens
ShouldTradeRes(flag, screens_ok, cap, trades) ==
    IF ~enabled THEN FALSE
    ELSE IF flag THEN FALSE
    ELSE IF ~screens_ok THEN FALSE
    ELSE IF cap # 0 /\ trades >= cap THEN FALSE
    ELSE TRUE

\* the monitor calls should_trade for a cluster (monitor_service.py:279)
MonShouldTrade ==
    /\ ex_calls < MaxCalls
    /\ ~mon_approved
    /\ \E screens_ok \in BOOLEAN :
         LET r == ResetDailyCounters(day_started, trades_today, today)
         IN  /\ day_started' = r.day_started
             /\ trades_today' = r.trades_today
             /\ mon_approved' = ShouldTradeRes(pause_flag, screens_ok, max_daily_trades,
                                               r.trades_today)
    /\ UNCHANGED <<ex_cfg, ex_positions, safety_cache, ex_calls, ex_subs, ex_last, ex_gates>>
    /\ UNCHANGED <<pause_flag, today, max_daily_trades, day_subs, flag_removed_by>>
    /\ UNCHANGED <<apVars, detVars, feeVars, auxVars, pmVars, monVars>>

\* and, when should_trade returned True, execute_buy (monitor_service.py:280)
MonExecuteBuy ==
    /\ mon_approved
    /\ ex_calls < MaxTradeCalls
    /\ ExExecuteBuy

\* handle_new_pool beside the monitor
TradeNewPool ==
    /\ ex_calls < MaxTradeCalls
    /\ ExNewPool

\* the end of execute_sell: sigs are the submissions that returned a
\* signature, sends the submissions made.  _execute_swap_with_retry removes
\* the pause file after the first submission of a sell.
SellFinish(sigs, sends) ==
    /\ ex_calls' = ex_calls + 1
    /\ trades_today' = trades_today + Cardinality(sigs)
    /\ day_subs' = day_subs + Cardinality(sigs)
    /\ pause_flag' = IF sends > 0 THEN FALSE ELSE pause_flag
    /\ flag_removed_by' = IF sends > 0 /\ pause_flag THEN "execute_sell" ELSE flag_removed_by
    /\ UNCHANGED <<ex_cfg, ex_positions, safety_cache, ex_subs, ex_last, ex_gates>>
    /\ UNCHANGED <<today, day_started, max_daily_trades, mon_approved>>
    /\ UNCHANGED <<apVars, detVars, feeVars, auxVars, pmVars, monVars>>

\* TradeExecutor.execute_sell
ExExecuteSell ==
    /\ ex_calls < MaxTradeCalls
    /\ \E quote \in BOOLEAN :
         IF dry_run \/ ~quote THEN SellFinish({}, 0)
         ELSE \E impact_ok \in BOOLEAN :
                IF ~impact_ok THEN SellFinish({}, 0)
                ELSE \E outs \in [Attempts -> AttemptOutcomes] :
                       LET r == SwapWithRetry(outs, TRUE, 1)
                       IN  SellFinish(r.sigs, r.sends)

\* the operator's /pause command (monitor_service.py:875-877)
TgPause ==
    /\ pause_flag' = TRUE
    /\ UNCHANGED <<today, day_started, max_daily_trades, mon_approved, day_subs,
                   flag_removed_by>>
    /\ UNCHANGED <<apVars, detVars, feeVars, auxVars, pmVars, exVars, monVars>>

\* the operator's /resume command (monitor_service.py:878-881)
TgResume ==
    /\ pause_flag' = FALSE
    /\ flag_removed_by' = IF pause_flag THEN "operator" ELSE flag_removed_by
    /\ UNCHANGED <<today, day_started, max_daily_trades, mon_approved, day_subs>>
    /\ UNCHANGED <<apVars, detVars, feeVars, auxVars, pmVars, exVars, monVars>>

\* midnight: the calendar day changes
NewDay ==
    /\ today < MaxDays
    /\ today' = today + 1
    /\ day_subs' = 0
    /\ UNCHANGED <<pause_flag, day_started, max_daily_trades, mon_approved, flag_removed_by>>
    /\ UNCHANGED <<apVars, detVars, feeVars, auxVars, pmVars, exVars, monVars>>

(***************************************************************************)
(* Auto-Pause manager: initial state and calls                             *)
(***************************************************************************)

InitPause ==
    /\ now = StartTime
    /\ pcfg_manual \in BOOLEAN
    /\ pstate = PauseStateInit
    /\ ap_last = ApLastNone
    /\ critical_latched = FALSE
    /\ fail_run = 0
    /\ ticks = 0
    /\ DetInit
    /\ FeeInit
    /\ AuxInit
    /\ PmInit
    /\ ExInit

\* the clock advances; ap_last describes a call only until the clock moves
Tick ==
    /\ ticks < MaxTicks
    /\ \E d \in TickSteps : now' = now + d
    /\ ticks' = ticks + 1
    /\ ap_last' = ApLastNone
    /\ UNCHANGED <<pcfg_manual, pstate, critical_latched, fail_run>>
    /\ UNCHANGED notApVars

ApIsTradingAllowed ==
    LET r == IsTradingAllowedRes(pstate, now)
    IN  /\ pstate' = r.state
        /\ ap_last' = ApLastNone
        /\ UNCHANGED <<now, pcfg_manual, critical_latched, fail_run, ticks>>
        /\ UNCHANGED notApVars

ApRecordSuccess ==
    /\ pstate' = RecordSuccessRes(pstate)
    /\ fail_run' = 0
    /\ ap_last' = [op |-> "record_success", ret |-> FALSE, rule |-> "None"]
    /\ UNCHANGED <<now, pcfg_manual, critical_latched, ticks>>
    /\ UNCHANGED notApVars

ApRecordFailure ==
    /\ fail_run < MaxFailRun
    /\ pstate.failures_this_hour < MaxHourFails
    /\ LET r == RecordFailureRes(pstate, now, pcfg_manual)
       IN  /\ pstate' = r.state
           /\ ap_last' = [op |-> "record_failure", ret |-> r.ret, rule |-> r.rule]
    /\ fail_run' = fail_run + 1
    /\ UNCHANGED <<now, pcfg_manual, critical_latched, ticks>>
    /\ UNCHANGED notApVars

ApCheckBalance ==
    \E resp \in BalanceValues \cup {NoneVal, RaiseVal} :
        LET r == CheckBalanceRes(pstate, now, resp, pcfg_manual)
        IN  /\ pstate' = r.state
            /\ ap_last' = ApLastNone
            /\ critical_latched' = (critical_latched \/ r.rule = "critical_balance")
            /\ UNCHANGED <<now, pcfg_manual, fail_run, ticks>>
            /\ UNCHANGED notApVars

\* AutoPauseManager.manual_resume
ApManualResume ==
    /\ pstate' = IF pstate.is_paused THEN Resume(pstate) ELSE pstate
    /\ ap_last' = ApLastNone
    /\ critical_latched' = FALSE
    /\ UNCHANGED <<now, pcfg_manual, fail_run, ticks>>
    /\ UNCHANGED notApVars

\* AutoPauseManager.manual_pause with its default arguments
ApManualPause ==
    /\ pstate' = Pause(pstate, "manual", manual_pause_duration_sec, FALSE, now, pcfg_manual)
    /\ ap_last' = ApLastNone
    /\ UNCHANGED <<now, pcfg_manual, critical_latched, fail_run, ticks>>
    /\ UNCHANGED notApVars

NextPause ==
    \/ Tick
    \/ ApIsTradingAllowed
    \/ ApRecordSuccess
    \/ ApRecordFailure
    \/ ApCheckBalance
    \/ ApManualResume
    \/ ApManualPause

SpecPause == InitPause /\ [][NextPause]_vars

(***************************************************************************)
(* Claims about the Auto-Pause manager (checked under SpecPause)           *)
(***************************************************************************)

\* C8: once check_balance has paused trading for a critical balance,
\* is_trading_allowed answers not-allowed in every later state until
\* manual_resume is called, whatever the configuration and whatever calls
\* and clock advances come in between.
C8_CriticalPauseNeedsManualResume ==
    critical_latched => Blocked(pstate, now)

\* C9: under the default configuration (require_manual_resume_on_critical =
\* true) a pause caused by consecutive failures, by the hourly limit or by a
\* low, non-critical balance is timed: at or after resume_at,
\* is_trading_allowed answers allowed without any manual_resume.
C9_TimedPauseResumesByItself ==
    ( /\ pcfg_manual
      /\ ~critical_latched
      /\ pstate.is_paused
      /\ pstate.pause_reason \in {"consecutive_failures", "hourly_failure_limit", "low_balance"}
      /\ Truthy(pstate.resume_at)
      /\ now >= pstate.resume_at )
    => IsTradingAllowedRes(pstate, now).allowed

\* C10: the record_failure call that brings consecutive_failures to
\* max_consecutive_failures returns True and leaves the manager paused for
\* consecutive_failures with resume_at = now + failure_pause_duration_sec;
\* record_success resets consecutive_failures to 0; and the
\* consecutive-failure rule trips only after at least
\* max_consecutive_failures failures in a row.
C10_ConsecutiveFailureRule ==
    /\ ( ap_last.op = "record_failure"
         /\ pstate.consecutive_failures = max_consecutive_failures )
       => ( /\ ap_last.ret
            /\ pstate.is_paused
            /\ pstate.pause_reason = "consecutive_failures"
            /\ pstate.resume_at = now + failure_pause_duration_sec )
    /\ ( ap_last.op = "record_success" => pstate.consecutive_failures = 0 )
    /\ ( ap_last.op = "record_failure" /\ ap_last.rule = "consecutive_failures" )
       => fail_run >= max_consecutive_failures

\* a success, then exactly max_consecutive_failures failures: the last one trips the rule
C10_Witness ==
    /\ ap_last.op = "record_failure"
    /\ ap_last.ret
    /\ pstate.consecutive_failures = max_consecutive_failures
    /\ fail_run = max_consecutive_failures
    /\ pstate.failures_this_hour > max_consecutive_failures

InitDetector ==
    /\ now = StartTime
    /\ pcfg_manual = TRUE
    /\ pstate = PauseStateInit
    /\ ap_last = ApLastNone
    /\ critical_latched = FALSE
    /\ fail_run = 0
    /\ ticks = 0
    /\ DetInit
    /\ FeeInit
    /\ AuxInit
    /\ PmInit
    /\ ExInit

NextDetector ==
    \/ DetHandleUnknownFrame
    \/ DetHandleRepeat
    \/ DetHandleMessage

SpecDetector == InitDetector /\ [][NextDetector]_vars

(***************************************************************************)
(* Claims about the bundle detector (checked under SpecDetector)           *)
(***************************************************************************)
EventsWithSig(sig) == {i \in DOMAIN det_events : sig \in Range(det_events[i].signatures)}
EventsForToken(token) == {i \in DOMAIN det_events : det_events[i].token_mint = token}

\* C6: a signature that has been observed once is never processed again, for
\* frame sequences of any length: it is added to a slot accumulator at most
\* once and at most one event is emitted for it.
C6_SignatureProcessedOnce ==
    \A sig \in Sigs :
        /\ sig_adds[sig] <= 1
        /\ Cardinality(EventsWithSig(sig)) <= 1

\* C7: at most one event is emitted per token mint per run, immediate
\* triggers and slot-closure triggers counted together, also after the
\* already-emitted-token set has been truncated.
C7_OneEventPerToken ==
    \A token \in {"T1", "T2", "T3"} : Cardinality(EventsForToken(token)) <= 1

LateSigs == {r.sig : r \in slot_hist.late}

\* C16: a slot is closed after its buys: a buy whose frame arrives at most
\* slot_window slots behind the current slot is never accumulated into a slot
\* that was closed before, and every such buy of a closed slot was in the
\* slot's accumulator when the slot was closed.
C16_ClosureAfterBuys ==
    /\ \A r \in slot_hist.late : r.lag > slot_window
    /\ \A c \in slot_hist.closed : \A sig \in Sigs :
         (Tx(sig).slot = c.slot /\ sig_adds[sig] > 0 /\ sig \notin LateSigs)
             => sig \in c.sigs

\* a slot was closed whose accumulator held a buy that had arrived behind
\* the current slot
C16_Witness ==
    \E c \in slot_hist.closed : c.sigs \cap slot_hist.ooo # {}

\* C17: right after _seen_sigs was truncated it holds exactly the SigKeep
\* signatures that were added to it last.
C17_TruncationKeepsMostRecent ==
    sig_truncated => seen_sigs = Range(sig_recent)

(***************************************************************************)
(* The position manager on its own: positions are added and closed by the  *)
(* monitor loop and by flatten_positions                                   *)
(***************************************************************************)
InitClose ==
    /\ now = StartTime
    /\ pcfg_manual = TRUE
    /\ pstate = PauseStateInit
    /\ ap_last = ApLastNone
    /\ critical_latched = FALSE
    /\ fail_run = 0
    /\ ticks = 0
    /\ DetInit
    /\ FeeInit
    /\ AuxInit
    /\ PmInit
    /\ ExInit

NextClose ==
    \/ PmAddPosition
    \/ PmCloseBegin
    \/ PmCloseSellFailed
    \/ PmCloseSellDone

SpecClose == InitClose /\ [][NextClose]_vars

SellsOf(o) == {i \in DOMAIN pm_sells : pm_sells[i].obj = o}
CallbacksOf(o) == {i \in DOMAIN pm_on_exit : pm_on_exit[i].obj = o}
ClosedObjs == {o \in DOMAIN pm_objs : ~IsOpen(pm_objs[o])}

\* C4: however concurrent close_position calls on one open position
\* interleave, at most one sell is executed for it, the exit callback is
\* invoked once, exits_executed is incremented once and one exit reason is
\* recorded; the other calls return None.
C4_PositionClosedOnce ==
    /\ \A o \in DOMAIN pm_objs :
         /\ Cardinality(SellsOf(o)) <= 1
         /\ Cardinality(CallbacksOf(o)) <= 1
         /\ Cardinality({pm_on_exit[i].reason : i \in CallbacksOf(o)}) <= 1
    /\ exits_executed = Cardinality(ClosedObjs)

(***************************************************************************)
(* The executor with its snipers and the Auto-Pause manager it consults,    *)
(* under the default PauseConfig; the calls of a run follow each other      *)
(* within one balance-check interval                                       *)
(***************************************************************************)
InitExec ==
    /\ now = StartTime
    /\ pcfg_manual = TRUE
    /\ pstate = PauseStateInit
    /\ ap_last = ApLastNone
    /\ critical_latched = FALSE
    /\ fail_run = 0
    /\ ticks = 0
    /\ DetInit
    /\ FeeInit
    /\ AuxInit
    /\ PmInit
    /\ ex_cfg \in ExConfigs
    /\ max_daily_trades = 0
    /\ ExInitRun

NextExec ==
    \/ ExExecuteBuy
    \/ ExKolBuy
    \/ ExBundleLaunch
    \/ ExNewPool

SpecExec == InitExec /\ [][NextExec]_vars

(***************************************************************************)
(* Claims about the entry paths (checked under SpecExec)                   *)
(***************************************************************************)
\* C1: for every token mint at most one buy is submitted per run, across
\* execute_buy, handle_new_pool, handle_kol_buy and handle_launch.
C1_OneBuyPerToken ==
    \A token \in Tokens : ex_subs[token] <= 1

\* C2: while the auto-pause fuse is tripped no entry path submits a buy; for
\* execute_buy the fuse is read after its own check_balance call.
C2_NoBuyWhileFuseTripped ==
    ex_last.sigs # {} => ~ex_last.fuse

\* C5: whenever a buy submission made for execute_buy returned a signature,
\* execute_buy reports a sent status with one of the returned signatures and
\* exactly one position for the token is added to the position manager.
C5_LandedBuyIsTracked ==
    (ex_last.op = "execute_buy" /\ ex_last.sigs # {})
        => /\ ex_last.status \in {"sent", "sent_direct"}
           /\ ex_last.tx_signature \in ex_last.sigs
           /\ ex_last.added = 1

GateStatuses == {"paused", "blocked_exposure", "blocked_pretrade", "blocked"}

\* C3: in execute_buy a candidate that fails a gate (fuse paused at entry,
\* critical balance, exposure limit, pre-trade checks, token safety) gets a
\* paused/blocked status and no execution attempt: nothing is submitted and
\* no position is added.  In particular a mint whose mint authority is set
\* and not burned is never executed; whitelisted mints bypass the safety gate.
C3_FailedGateNoExecution ==
    ex_last.op = "execute_buy" =>
        /\ (ex_last.gate # "none" \/ ex_last.status \in GateStatuses)
              => /\ ex_last.gate # "none"
                 /\ ex_last.status \in GateStatuses
                 /\ ~ex_last.attempted
                 /\ ex_last.sigs = {}
                 /\ ex_last.added = 0
        /\ (ex_last.entry_fuse \/ ex_last.balance_rule = "critical_balance")
              => (ex_last.status = "paused" /\ ~ex_last.attempted)
        /\ (MintAuthorityActive(ex_last.token) /\ ex_last.token \notin whitelist_mints)
              => /\ ex_last.status \in GateStatuses
                 /\ ~ex_last.attempted
                 /\ ex_last.sigs = {}

\* a mint with an active mint authority reached the token-safety gate and
\* was rejected there
C3_Witness ==
    /\ ex_last.op = "execute_buy"
    /\ MintAuthorityActive(ex_last.token)
    /\ ex_last.token \notin whitelist_mints
    /\ ex_last.gate = "token_safety"
    /\ ex_last.status = "blocked"
    /\ ~ex_last.attempted

\* the transport errors the pre-trade checks can meet
PretradeTransportErrors == {"source_error", "quote_error"}

\* C19: the pre-trade checks and the token-safety check let a candidate pass
\* when they meet a transport error or timeout, and drop it when they find a
\* policy violation.
C19_GatesOpenOnTransportErrors ==
    /\ ex_gates.pretrade \in PretradeTransportErrors => ex_last.gate # "pretrade"
    /\ ex_gates.safety = "error" => ex_last.gate # "token_safety"
    /\ ex_gates.pretrade = "rejected" => ex_last.gate = "pretrade"
    /\ (ex_gates.safety = "ok" /\ MintAuthorityActive(ex_last.token))
          => ex_last.gate = "token_safety"

(***************************************************************************)
(* The monitor's auto-trade gate with the operator's pause file, the pool  *)
(* sniper and the executor's sell                                          *)
(***************************************************************************)
\* the configuration of these runs: the snipers enabled (ENABLE_SNIPE), no
\* direct route required
TradeConfig == [snipers |-> TRUE, require_direct_dex |-> FALSE]

InitTrade ==
    /\ now = StartTime
    /\ pcfg_manual = TRUE
    /\ pstate = PauseStateInit
    /\ ap_last = ApLastNone
    /\ critical_latched = FALSE
    /\ fail_run = 0
    /\ ticks = 0
    /\ DetInit
    /\ FeeInit
    /\ AuxInit
    /\ PmInit
    /\ ex_cfg = TradeConfig
    /\ max_daily_trades \in DailyCaps
    /\ ExInitRun

NextTrade ==
    \/ MonShouldTrade
    \/ MonExecuteBuy
    \/ TradeNewPool
    \/ ExExecuteSell
    \/ TgPause
    \/ TgResume
    \/ NewDay

SpecTrade == InitTrade /\ [][NextTrade]_vars

\* C11: an entry path that is called while pause.flag exists attempts no
\* buy, and pause.flag is only ever removed by the operator, never by a
\* trading operation of the executor.
C11_PauseFlagHolds ==
    /\ (ex_last.op # "None" /\ ex_last.pause_file) => ~ex_last.attempted
    /\ flag_removed_by # "execute_sell"

\* C18: with a daily cap configured, the submissions that returned a
\* signature within one calendar day never exceed max_daily_trades.
C18_DailyCapHolds ==
    max_daily_trades > 0 => day_subs <= max_daily_trades

(***************************************************************************)
(* The monitor loop of the position manager, with positions being added    *)
(* and flatten_positions closing positions beside it                       *)
(***************************************************************************)
InitMonitor ==
    /\ now = StartTime
    /\ pcfg_manual = TRUE
    /\ pstate = PauseStateInit
    /\ ap_last = ApLastNone
    /\ critical_latched = FALSE
    /\ fail_run = 0
    /\ ticks = 0
    /\ DetInit
    /\ FeeInit
    /\ AuxInit
    /\ PmInit
    /\ ExInit

NextMonitor ==
    \/ MonAddPosition
    \/ MonPollBegin
    \/ MonPollStep
    \/ PmCloseSellDone
    \/ PmCloseSellFailed
    \/ PmFlattenClose
    \/ HoldTick

SpecMonitor == InitMonitor /\ [][NextMonitor]_vars

\* the tests of _check_exit_conditions on what the latest evaluation saw
SawLoss == mon_last.pnl_pct <= -stop_loss_pct
SawProfit == mon_last.pnl_pct >= take_profit_pct
SawTrail == mon_last.active /\ mon_last.price <= mon_last.stop_price
SawTimeout == mon_last.hold_min >= max_hold_minutes

C13_TrailingNeedsActivation ==
    /\ \A o \in 1 .. Len(pm_objs) :
         (pm_objs[o].trailing_stop_active \/ pm_objs[o].exit_reason = "trailing_stop")
             => o \in ts_reached
    /\ pm_task["monitor"].reason = "trailing_stop" => pm_task["monitor"].obj \in ts_reached
    /\ mon_last.reason = "trailing_stop" => mon_last.obj \in ts_reached

\* C14: a position whose exit_time is set never changes again and stays in
\* the positions map, and the monitor does not evaluate it.
C14_ClosedIsTerminal ==
    [][/\ \A o \in 1 .. Len(pm_objs) :
            ~IsOpen(pm_objs[o]) => /\ pm_objs'[o] = pm_objs[o]
                                   /\ pm_positions'[pm_objs[o].id] = o
       /\ mon_last' # mon_last => mon_last'.was_open]_vars

\* C15: the positions file holds the positions in memory.
C15_FileMatchesMemory ==
    pm_file = SaveFile(pm_positions, pm_objs, exits_executed)

(***************************************************************************)
(* The priority fee tuner on its own, for any fee bounds with              *)
(* min_fee <= base_fee <= max_fee                                          *)
(***************************************************************************)
InitFee ==
    /\ now = StartTime
    /\ pcfg_manual = TRUE
    /\ pstate = PauseStateInit
    /\ ap_last = ApLastNone
    /\ critical_latched = FALSE
    /\ fail_run = 0
    /\ ticks = 0
    /\ DetInit
    /\ PmInit
    /\ ExInit
    /\ AuxInit
    /\ \E cfg \in FeeConfigs : FeeInitWith(cfg)

NextFee ==
    \/ FeeRecordOutcome
    \/ FeeUpdateCongestion
    \/ FeeResetToBase
    \/ FeeGetCurrentFee
    \/ FeeTick

SpecFee == InitFee /\ [][NextFee]_vars

InFeeBounds(fee) == fee_cfg.min_fee <= fee /\ fee <= fee_cfg.max_fee

\* C20: with min_fee <= base_fee <= max_fee, current_fee, the fee
\* record_outcome returns and the fee get_current_fee returns (with the
\* congestion multiplier applied) are within [min_fee, max_fee] after any
\* sequence of record_outcome, update_congestion and reset_to_base.
C20_FeeWithinBounds ==
    /\ InFeeBounds(fee_state.current_fee)
    /\ InFeeBounds(GetCurrentFee(fee_state, fee_cfg))
    /\ fee_last.op # "None" => InFeeBounds(fee_last.ret)

\* get_current_fee's multiplier took the fee above max_fee and the call
\* returned max_fee, after record_outcome had changed the fee
C20_Witness ==
    /\ fee_last.op = "get_current_fee"
    /\ fee_last.raw > fee_cfg.max_fee
    /\ fee_last.ret = fee_cfg.max_fee
    /\ fee_state.current_fee # fee_cfg.base_fee
(***************************************************************************)
(* The AMM and sizing functions on their own, for bounded amounts,         *)
(* reserves and limits                                                     *)
(***************************************************************************)
InitSizing ==
    /\ now = StartTime
    /\ pcfg_manual = TRUE
    /\ pstate = PauseStateInit
    /\ ap_last = ApLastNone
    /\ critical_latched = FALSE
    /\ fail_run = 0
    /\ ticks = 0
    /\ DetInit
    /\ FeeInit
    /\ PmInit
    /\ ExInit
    /\ PcInit
    /\ IgInit
    /\ SafInit
    /\ sz_in \in [amount_a : Amounts, amount_b : Amounts, quote_reserve : Reserves,
                  base_reserve : Reserves, lim : SizingLimits]
    /\ sz_in.amount_a <= sz_in.amount_b
    /\ sz_swap = NoneVal
    /\ sz_impact = SzImpactNone
    /\ sz_opt = SzOptNone

NextSizing ==
    \/ SzSwapOutput
    \/ SzImpact
    \/ SzOptimalBuySize

SpecSizing == InitSizing /\ [][NextSizing]_vars

\* C21: for an amount > 0 and reserves >= 1, calculate_swap_output with the
\* 25/10000 fee returns between 0 and reserve_out - 1: a swap never takes
\* the whole output reserve.
C21_SwapLeavesReserve ==
    sz_swap # NoneVal => (0 <= sz_swap /\ sz_swap <= sz_in.base_reserve - 1)

\* a swap that takes all of the output reserve but one unit
C21_Witness ==
    /\ sz_swap # NoneVal
    /\ sz_in.base_reserve > 1
    /\ sz_swap = sz_in.base_reserve - 1

\* C22: for fixed positive reserves the impact in basis points does not
\* decrease when the amount grows: min_buy <= a <= b <= max_buy gives
\* impact_bps(a) <= impact_bps(b).
C22_ImpactMonotone ==
    (/\ sz_impact # SzImpactNone
     /\ sz_in.lim.min_buy <= sz_in.amount_a
     /\ sz_in.amount_a <= sz_in.amount_b
     /\ sz_in.amount_b <= sz_in.lim.max_buy) => sz_impact.a <= sz_impact.b

\* C23: the size calculate_optimal_buy_size returns has an expected impact
\* <= max_impact_bps, is <= max_buy and is <= max_liquidity_pct percent of
\* the quote reserve.
C23_SizeRespectsCeilings ==
    sz_opt # SzOptNone =>
        /\ sz_opt.expected_impact_bps <= max_impact_bps
        /\ sz_opt.recommended_amount <= sz_in.lim.max_buy
        /\ 1000 * sz_opt.recommended_amount <= max_liquidity_pm * sz_in.quote_reserve
(***************************************************************************)
(* The pool cache on its own                                               *)
(***************************************************************************)
InitCache ==
    /\ now = StartTime
    /\ pcfg_manual = TRUE
    /\ pstate = PauseStateInit
    /\ ap_last = ApLastNone
    /\ critical_latched = FALSE
    /\ fail_run = 0
    /\ ticks = 0
    /\ DetInit
    /\ FeeInit
    /\ PmInit
    /\ ExInit
    /\ AuxInit

NextCache ==
    \/ \E key \in CacheKeys : PcGet(key)
    \/ \E key \in CacheKeys, hot \in BOOLEAN : PcSet(key, hot)
    \/ \E key \in CacheKeys : PcInvalidate(key)
    \/ PcTick

SpecCache == InitCache /\ [][NextCache]_vars

\* C24: PoolCache.get never returns a value later than its TTL after its
\* set (ttl_hot for a hot entry, ttl_cold for a cold one), and an expired
\* entry that is looked up is removed from the cache.
C24_NoStaleEntry ==
    pc_last.op = "get" =>
        /\ pc_last.value # NoValue =>
               pc_last.at <= pc_last.value.set_at + TtlOf(pc_last.value.hot)
        /\ pc_last.expired => (pc_last.value = NoValue /\ ~CacheHas(pc_cache, pc_last.key))

\* a cold entry looked up after its TTL: not returned, and removed
C24_Witness ==
    /\ pc_last.op = "get"
    /\ pc_last.expired
    /\ pc_now > ttl_ms_cold
    /\ pc_last.value = NoValue
    /\ ~CacheHas(pc_cache, pc_last.key)

(***************************************************************************)
(* The ingestor's start() task and stop()                                  *)
(***************************************************************************)
InitIngestor ==
    /\ now = StartTime
    /\ pcfg_manual = TRUE
    /\ pstate = PauseStateInit
    /\ ap_last = ApLastNone
    /\ critical_latched = FALSE
    /\ fail_run = 0
    /\ ticks = 0
    /\ DetInit
    /\ FeeInit
    /\ PmInit
    /\ ExInit
    /\ SzInit
    /\ PcInit
    /\ SafInit
    /\ ig_pc = "idle"
    /\ ig_running = FALSE
    /\ ig_ws = "None"
    /\ ig_url \in BOOLEAN
    /\ ig_stopped = FALSE
    /\ ig_attempts = 0
    /\ ig_msgs = 0

IgAwaitDone ==
    \/ \E ok \in BOOLEAN : IgConnectDone(ok)
    \/ \E ok \in BOOLEAN : IgSubscribeDone(ok)
    \/ \E what \in {"message", "end", "error"} : IgListenStep(what)
    \/ IgSleepDone

NextIngestor ==
    \/ IgStart
    \/ IgStop
    \/ IgAwaitDone

SpecIngestor == InitIngestor /\ [][NextIngestor]_vars

\* every pending await of the start() task completes
SpecIngestorFair == SpecIngestor /\ WF_vars(IgAwaitDone)

\* C25: after stop() during the connect / subscribe / listen / sleep cycle,
\* the start() task eventually returns with the connection closed, and no
\* connection attempt begins once stop has been called.
C25_StopTerminates ==
    /\ ig_stopped ~> (ig_pc = "returned" /\ ig_ws # "open")
    /\ [][ig_stopped => ig_attempts' = ig_attempts]_vars

\* the task has returned after a stop that came while it was connecting
C25_Witness ==
    /\ ig_stopped
    /\ ig_pc = "returned"
    /\ ig_ws = "closed"
    /\ ig_attempts > 0

(***************************************************************************)
(* Claims about the swap loop and the reporting of outcomes (SpecExec)     *)
(***************************************************************************)
\* C26: _execute_swap_with_retry stops at the first submission that returns
\* a signature and returns that signature: a call of execute_buy that went
\* through it has at most one successful submission, and when it has one the
\* call's tx_signature is that signature.
C26_RetryStopsAtFirstSignature ==
    (ex_last.op = "execute_buy" /\ ex_last.status \in {"sent", "failed"} /\ ex_last.sigs # {})
        => /\ Cardinality(ex_last.sigs) = 1
           /\ ex_last.tx_signature \in ex_last.sigs

\* C27: every buy outcome is reported to the auto-pause manager: a call of
\* execute_buy that ends failed on the aggregator path counts one more
\* consecutive failure (record_failure), and one that ends sent resets the
\* count (record_success).
C27_BuyOutcomeReported ==
    [][(ex_calls' # ex_calls /\ ex_last'.op = "execute_buy")
         => /\ ex_last'.status = "failed"
                 => pstate'.consecutive_failures = pstate.consecutive_failures + 1
            /\ ex_last'.status = "sent" => pstate'.consecutive_failures = 0]_vars

(***************************************************************************)
(* The content of the coordinated-buy events (SpecDetector)                *)
(***************************************************************************)
\* the distinct buyers among the buys of token in a set of signatures
SigBuyers(sigs, token) == {Tx(sig).buyer : sig \in {x \in sigs : Tx(x).token_mint = token}} \ {""}

RECURSIVE SigVolume(_)
SigVolume(sigs) ==
    IF sigs = <<>> THEN 0 ELSE Tx(Head(sigs)).amount_sol + SigVolume(Tail(sigs))

\* C28: a coordinated-buy event is emitted for a token of a closed slot
\* only with n >= min_coordinated_buyers distinct buyers, and it carries
\* num_buyers = n, the sum of the amounts of its buys and the confidence
\* min(0.5 + 0.1 n, 0.95); and every token of a closed slot with that many
\* distinct buyers has an event.
C28_CoordinatedEventContent ==
    /\ \A i \in DOMAIN det_events :
         LET e == det_events[i]
             n == Cardinality(SigBuyers(Range(e.signatures), e.token_mint))
         IN  e.event_type = "coordinated_buy"
                 => /\ \A sig \in Range(e.signatures) :
                         Tx(sig).token_mint = e.token_mint /\ Tx(sig).slot = e.slot
                    /\ \E c \in slot_hist.closed : c.slot = e.slot
                    /\ n >= min_coordinated_buyers
                    /\ e.num_buyers = n
                    /\ e.total_sol_volume = SigVolume(e.signatures)
                    /\ e.confidence = (IF n >= 5 THEN 95 ELSE 50 + (10 * n))
    /\ \A c \in slot_hist.closed : \A token \in {Tx(sig).token_mint : sig \in c.sigs} :
         Cardinality(SigBuyers(c.sigs, token)) >= min_coordinated_buyers
             => \E i \in DOMAIN det_events : det_events[i].token_mint = token

\* five buyers of one token in a slot that was closed: the confidence is capped
C28_Witness ==
    \E i \in DOMAIN det_events :
        /\ det_events[i].event_type = "coordinated_buy"
        /\ det_events[i].num_buyers = 5
        /\ det_events[i].total_sol_volume = 5
        /\ det_events[i].confidence = 95

(***************************************************************************)
(* The success rule of the fee tuner (SpecFee)                             *)
(***************************************************************************)
\* C29: a success counted by record_outcome (outside the cooldown) lowers the
\* stored fee only when it completes a run of 3 consecutive successes, and
\* after a decrease a new run of 3 is needed: the fee moves on the 3rd,
\* 6th, ... success of a row, never on the 1st, 2nd, 4th or 5th.
C29_DecreaseEveryThirdSuccess ==
    [][(/\ fee_state'.consecutive_successes = fee_state.consecutive_successes + 1
        /\ fee_state'.current_fee # fee_state.current_fee)
         => fee_state'.consecutive_successes % 3 = 0]_vars

(***************************************************************************)
(* The trailing stop once armed (SpecMonitor)                              *)
(***************************************************************************)
\* the monitor has just evaluated position o
Polled(o) == mon_last' # mon_last /\ mon_last'.obj = o

\* an armed trailing stop stays armed and its price does not go down
TrailingMonotone(o) ==
    pm_objs[o].trailing_stop_active
        => /\ pm_objs'[o].trailing_stop_active
           /\ pm_objs'[o].trailing_stop_price >= pm_objs[o].trailing_stop_price

\* the stop of an armed position after a poll: highest * (1 - ts_pct / 100)
\* when that is greater, the stop as it was otherwise
Ratcheted(o) ==
    LET new_stop == StopBelow(pm_objs'[o].highest_price_usd, trailing_stop_pct)
    IN  pm_objs'[o].trailing_stop_price =
            IF new_stop > pm_objs[o].trailing_stop_price
            THEN new_stop ELSE pm_objs[o].trailing_stop_price

WithinTarget ==
    {a \in sz_in.lim.min_buy .. sz_in.lim.max_buy :
        ImpactForAmount(a, sz_in.quote_reserve, sz_in.base_reserve) <= target_impact_bps}

\* C31: the binary search of calculate_optimal_buy_size returns the largest
\* amount of [min_buy, max_buy] whose impact is <= target_impact_bps, and
\* min_buy when no amount of the range is within the target.
C31_SearchFindsLargest ==
    sz_opt # SzOptNone =>
        IF WithinTarget = {}
        THEN sz_opt.target_amount = sz_in.lim.min_buy
        ELSE /\ sz_opt.target_amount \in WithinTarget
             /\ \A a \in WithinTarget : a <= sz_opt.target_amount

(***************************************************************************)
(* Reconnection of the ingestor (SpecIngestor)                             *)
(***************************************************************************)
\* C32: after a connection has ended, for whatever reason, the next
\* connection attempt begins only when the one-second sleep of start() has
\* completed: no attempt after the first begins from any other await.
C32_SleepBeforeReconnect ==
    [][(ig_attempts' > ig_attempts /\ ig_attempts > 0) => ig_pc = "sleeping"]_vars

\* C33: after every completed _handle_message step the signature set holds
\* at most its cap of entries (20,000 in the source) and the set of emitted
\* tokens at most its cap (2,000), however many distinct signatures and
\* tokens have arrived.
C33_SeenSetsBounded ==
    /\ Cardinality(seen_sigs) <= SigCap
    /\ Cardinality(seen_tokens) <= TokCap

\* more distinct signatures than the cap have arrived, the last one
\* truncated the signature set, and the token set stands at its cap
C33_Witness ==
    /\ sig_truncated
    /\ events_processed > SigCap
    /\ Cardinality(seen_tokens) = TokCap

\* C34: add_position never overwrites an existing position record: a call
\* made with entry_slot = 0, as the executor and the snipers make it,
\* stores under an id that is not present yet, so the record of an earlier
\* position (open or closed) stays in the positions map.
C34_AddNeverOverwrites ==
    [][\A id \in PositionIds :
         pm_positions[id] # 0 => pm_positions'[id] = pm_positions[id]]_vars

\* C35: with the time exit enabled, every open position whose hold duration
\* has reached max_hold_minutes is submitted for closing when the monitor
\* poll comes to it, whether or not the price source returned a price for
\* it (with reason time_exit, unless an earlier test of
\* _check_exit_conditions answered with its own reason).
C35_TimeExitAtNextPoll ==
    [][(/\ mon.pc = "loop"
        /\ mon' # mon
        /\ enable_time_exit
        /\ IsOpen(pm_objs[mon.snapshot[mon.i]])
        /\ HoldMinutes(pm_objs[mon.snapshot[mon.i]], now) >= max_hold_minutes)
       => /\ pm_task'["monitor"].pc = "selling"
          /\ pm_task'["monitor"].reason \in {"time_exit", "rug_detected", "stop_loss",
                                             "take_profit", "trailing_stop"}]_vars

\* a close_position call returns None from its sell: no signature came back
SellReturnsNone(c) ==
    /\ pm_task[c].pc = "selling"
    /\ pm_task'[c].pc = "idle"
    /\ pm_ret'.by = c
    /\ pm_ret'.ret = NoneVal

C37_PausedFailureKeepsPause ==
    [][(/\ fail_run' = fail_run + 1
        /\ ap_last'.op = "record_failure"
        /\ pstate.is_paused)
       => /\ pstate'.pause_reason = pstate.pause_reason
          /\ pstate'.resume_at = pstate.resume_at
          /\ pstate'.requires_manual_resume = pstate.requires_manual_resume
          /\ ap_last'.rule = "None"]_vars

\* a record_outcome call has just been made
OutcomeRecorded ==
    /\ fee_last'.op = "record_outcome"
    /\ fee_last'.flip # fee_last.flip

\* C38: every outcome passed to record_outcome, one inside the adjustment
\* cooldown included, is reflected in the bookkeeping: a failure raises
\* consecutive_failures by one, so that it counts the failures since the
\* last success, a success resets it to 0, and the outcome is appended to
\* the ring of recent outcomes.
C38_EveryOutcomeCounted ==
    [][OutcomeRecorded =>
         /\ fee_state'.consecutive_failures =
                IF fee_last'.success THEN 0 ELSE fee_state.consecutive_failures + 1
         /\ fee_state'.recent_outcomes =
                IF fee_state.recent_outcomes < MaxRecent
                THEN fee_state.recent_outcomes + 1 ELSE MaxRecent]_vars

(***************************************************************************)
(* The token-safety checker on its own: check_token on any account data.   *)
(***************************************************************************)
InitSafety ==
    /\ now = StartTime
    /\ pcfg_manual = TRUE
    /\ pstate = PauseStateInit
    /\ ap_last = ApLastNone
    /\ critical_latched = FALSE
    /\ fail_run = 0
    /\ ticks = 0
    /\ DetInit
    /\ FeeInit
    /\ PmInit
    /\ ExInit
    /\ AuxInit

NextSafety == SafCheckToken

SpecSafety == InitSafety /\ [][NextSafety]_vars

\* the account data cannot be parsed as a mint: it is shorter than the mint
\* layout, or one of its authority option tags is neither 0 nor 1
NotAMint(acc) ==
    \/ acc.len < MINT_LAYOUT_SIZE
    \/ acc.mint_auth_option \notin {0, 1}
    \/ acc.freeze_auth_option \notin {0, 1}

\* C39: with require_mint_renounced and require_freeze_renounced enabled,
\* check_token never answers is_safe = True, and caches no safe result, for
\* a mint that is neither whitelisted nor cached whose account data cannot
\* be parsed as a mint.
C39_UnparseableNeverSafe ==
    (/\ require_mint_renounced
     /\ require_freeze_renounced
     /\ safety_last.op = "check_token"
     /\ safety_last.mint \notin whitelist_mints
     /\ ~safety_last.cached
     /\ NotAMint(safety_last.acc))
    => /\ ~safety_last.is_safe
       /\ safety_last.mint \notin safety_cache

\* the entry stored under key in cache c
CacheEntry(c, key) == c[CacheIndex(c, key)]

\* a set has just rewritten the entry of an already cached key
SetOnCached(key) ==
    /\ CacheHas(pc_cache, key)
    /\ CacheHas(pc_cache', key)
    /\ CacheEntry(pc_cache', key) # CacheEntry(pc_cache, key)

\* C40: the cache never holds more than max_size entries, whatever the
\* sequence of set, get and invalidate, and a set on an already cached key
\* replaces that entry without evicting any other entry.
C40_BoundedAndReplacesInPlace ==
    [][/\ Len(pc_cache') <= MaxCacheSize
       /\ \A key \in CacheKeys :
            SetOnCached(key) =>
               \A other \in CacheKeys :
                 CacheHas(pc_cache, other) => CacheHas(pc_cache', other)]_vars
====
